---- MODULE Spec2Model ----
(***************************************************************************)
(* TeczoneBendAgent worker: the job runner (process_job) and the job queue *)
(* loop (run_loop, claim_job, release_job) of src/worker/worker.py.        *)
(*                                                                         *)
(* The specifications of this module:                                      *)
(*   Spec       one run of process_job on one job descriptor, the pause    *)
(*              hotkey disabled (disable_hotkeys / settings.disableHotkeys)*)
(*   SpecPause  one run of process_job with the pause hotkey enabled: the  *)
(*              listener thread toggles the pause flag at any time;        *)
(*   SpecSteps  one run of process_job in which connect, open_file,        *)
(*              set_material and export_geo of teczone_actions.py are      *)
(*              computed from what the target application shows;           *)
(*   SpecScenario  SpecSteps for the jobs of the end-to-end scenarios:     *)
(*              every item a STEP file with a catalog material, the        *)
(*              default workflow;                                          *)
(*   SpecLoop   several workers running run_loop over one jobs directory   *)
(*              and one state directory;                                   *)
(*   SpecWindows  the window searches of teczone_actions.py and            *)
(*              ui_utils.py applied to a desktop of top-level windows and  *)
(*              to a dialog with its controls;                             *)
(*   SpecWaits  one call of a TecZoneSession primitive followed wait by    *)
(*              wait, every poll observing what it may; SpecWaitsFair is   *)
(*              SpecWaits with the worker thread kept scheduled;           *)
(*   SpecSession  one run of process_job together with what it starts      *)
(*              beside itself: the overlay child, the hotkey listener and  *)
(*              the periodic screenshot thread;                            *)
(*   SpecMerge  the workflow configuration of a TecZoneSession: the        *)
(*              defaults merged with an external configuration;            *)
(*   SpecPauseFair  process_job with the pause hotkey enabled or disabled, *)
(*              the thread that runs the job kept scheduled.               *)
(*                                                                         *)
(* Environment assumptions (all specifications): the worker's own          *)
(* diagnostics and persistence helpers (write_json, write_needs_help,      *)
(* Screenshotter.snap, the logger) complete; the target application is a   *)
(* black box, so every call of a TecZoneSession primitive may return,      *)
(* raise NeedsHelpError or raise another exception.                        *)
(***************************************************************************)
EXTENDS Integers, Sequences, FiniteSets, TLC

VARIABLES
    \* ---- the job descriptor (inputs of process_job) ----
    inputFiles,       \* job["inputFiles"]: sequence of [partId, path]
    dryRun,           \* settings.get("dryRun")
    xometryJson,      \* "none" (no catalog), "ok" (parses), "bad" (parse fails)
    hotkey_enabled,   \* (not disable_hotkeys) and (not settings.disableHotkeys)
    workflow,         \* TecZoneSession.workflow (defaults merged with the config)
    exportNameTemplate, \* settings.get("exportNameTemplate", "<partName>.geo")
    catalog,          \* what load_xometry_map yields when it parses: partId -> material
    \* ---- locals of process_job ----
    pc,               \* position in process_job
    xometry_map,      \* the material map in use
    overall_status,
    result,           \* the in-memory Job Result [status, parts]
    index,            \* number of loop iterations begun (part_index)
    part_result,      \* the Part Result of the item in progress
    step,             \* the local `step`
    opened_document,
    after,            \* what follows the item's finally / the outer finally
    cleaned,          \* the outer finally has run
    \* ---- pause: PauseController and wait_if_paused ----
    paused,           \* PauseController._paused
    pause_shot_taken,
    paused_shots,     \* [seen: `toggles` at the last poll that found the flag
                      \* set, 0: none; pause: `toggles` at the last "paused"
                      \* screenshot; n: the screenshots of that pause, to 2]
    waited,           \* wait_if_paused has returned for the pending step
    toggles,          \* hotkey presses so far
    overlay_text,     \* the text last sent to the overlay
    \* ---- persistent storage written by process_job ----
    resultFile,       \* <jobId>.result.json
    latestFile,       \* result.json
    needsHelpFile,    \* <jobId>_NEEDS_HELP.txt and, next to it, windows.json
    \* ---- the primitive in progress ----
    exc,              \* the exception the last primitive raised (its message)
    polls,            \* iterations so far of export_geo's completion loop, 0
                      \* outside it
    \* ---- history of what the target application showed ----
    env,              \* observations of the primitive call made last
    seen_items,       \* the selection list set_material read for this item
    \* ---- history ----
    calls,            \* every primitive call: [prim, item, outcome]
    \* ---- run_loop: shared directories ----
    markers,          \* files of the state directory: <<jobId, suffix>>
    \* ---- run_loop: per worker ----
    wpc, wlist, wjob, wok, wstatus,
    passes,           \* polling passes begun so far, over all workers
    once,             \* the --once flag
    \* ---- run_loop: history ----
    runs,             \* jobId -> number of process_job runs started
    wraced,           \* worker -> its pending claim_job raced another one
    \* ---- the window searches of connect and of the dialog helpers ----
    teczone_title_re, \* the --teczone-title-re override, "" when not given
    desktop,          \* the top-level windows: sequence of [pid, title]
    flux_pids,        \* what the last _flux_process_ids call returned
    pattern_ix,       \* patterns _wait_for_main_window has tried in this poll
    main_window,      \* index in desktop of the window found, 0 for None
    dlg,              \* the window the dialog helpers look at
    verdict,          \* what the helpers returned for dlg
    \* ---- a TecZoneSession primitive followed through its waits ----
    tz_prim,          \* the primitive called, "" before the call
    tz_pc,            \* the stage of the primitive that runs next
    tz_polls,         \* iterations so far of the waiting loop in progress
    tz_obs,           \* what the last poll or diagnostic dump observed
    tz_trace,         \* the stages entered and the deadlines hit, in order
    tz_end,           \* how the primitive ended (outcome "" while it runs)
    \* ---- the helpers process_job starts and stops around the session ----
    no_overlay,       \* the no_overlay parameter
    periodic_seconds, \* settings.get("screenshotsEverySeconds", 0)
    host,             \* what the machine allows: [popen_ok, pynput_ok, hotkey_ok]
    overlay,          \* "unset", "none" (None), "up", "down" (child gone), "stopped"
    stop_event,       \* threading.Event: is_set()
    listener,         \* PauseController._listener: "unset", "none", "running", "stopped"
    workflow_config,  \* the workflow config file: [state, data]
    default_workflow, \* the module global DEFAULT_WORKFLOW of teczone_actions.py
    merged,           \* what _load_workflow returned, as a tree of values
    timer             \* the periodic thread: [at, shots], at one of "unset",
                      \* "off", "check", "snap", "wait", "exited"

pauseVars == <<paused, pause_shot_taken, paused_shots, waited, toggles>>
primVars == <<exc, polls, env, seen_items>>
winVars == <<teczone_title_re, desktop, flux_pids, pattern_ix, main_window,
             dlg, verdict>>
waitVars == <<tz_prim, tz_pc, tz_polls, tz_obs, tz_trace, tz_end>>
sessionInputs == <<no_overlay, periodic_seconds, host>>
sessionVars == <<overlay, stop_event, listener, timer>>
mergeVars == <<workflow_config, default_workflow, merged>>
extVars == <<winVars, waitVars, sessionInputs, sessionVars, mergeVars>>
procVars == <<inputFiles, dryRun, xometryJson, catalog, hotkey_enabled,
              workflow, exportNameTemplate, pc, xometry_map, overall_status, result, index,
              part_result, step, opened_document, after, cleaned, pauseVars,
              overlay_text, resultFile, latestFile, needsHelpFile, primVars,
              calls>>
jobVars == <<procVars, extVars>>
loopVars == <<markers, wpc, wlist, wjob, wok, wstatus, passes, once, runs, wraced>>
vars == <<jobVars, loopVars>>

(***************************************************************************)
(* Bounds                                                                  *)
(***************************************************************************)
MaxItems == 2
NumWorkers == 2
NumJobs == 1
MaxPasses == 2
MaxPauseItems == 1   \* work items of a job run under SpecPause
MaxToggles == 3      \* hotkey presses during one job
MaxStepItems == 1    \* work items of a job run under SpecSteps
MaxPolls == 2        \* iterations of a polling loop before its deadline
MaxScenarioItems == 2   \* work items of a job run under SpecScenario
MaxWindows == 2      \* top-level windows on the desktop during connect
MaxSessionItems == 1 \* work items of a job run under SpecSession
MaxShots == 1        \* periodic screenshots counted (more are taken, not counted)
MaxDepth == 2        \* nesting of maps in a workflow config file

(***************************************************************************)
(* Values                                                                  *)
(***************************************************************************)
MAJOR_STEPS == <<"OPEN_FILE", "SET_MATERIAL", "EXPORT_GEO">>
MajorSteps == {MAJOR_STEPS[i] : i \in 1..Len(MAJOR_STEPS)}

NoPath == ""
\* a name is the sequence of its characters; None and "" are both falsy
NoMaterial == <<>>
NoGeoPath == <<>>
NoResult == [status |-> "<none>", parts |-> <<>>]
NoNeedsHelp == [step |-> "", part |-> 0, found |-> [text |-> ""], active |-> "",
                titles |-> <<>>, windows_json |-> <<>>]
NoEnv == [prim |-> "", item |-> 0, timeout |-> FALSE]
NoDlg == [control_type |-> "", class_name |-> "", title |-> "", pid |-> 0,
          controls |-> {}]
NoVerdict == [process_id |-> 0]
NoObs == [hit |-> FALSE, abort |-> FALSE]

\* teczone_actions.py:36-48: the fields of the workflow the primitives read
DEFAULT_WORKFLOW == [materialRequired |-> FALSE, useEnterBend |-> TRUE]

NoPart == [partId |-> 0, inputPath |-> NoPath, materialFromXometry |-> NoMaterial,
           materialUsedInTecZone |-> NoMaterial, geoPath |-> NoGeoPath,
           status |-> "<none>", notes |-> <<>>]

Paths == {NoPath, "part.stp", "part.STEP", "part.dxf"}
\* catalog materials: "Inox"
Materials == {<<"I", "n", "o", "x">>}
PartIds == 1..MaxItems

\* os.path.splitext(input_path)[1].lower()
SplitExtLower(path) ==
    CASE path = "part.stp" -> ".stp"
      [] path = "part.STEP" -> ".step"
      [] path = "part.dxf" -> ".dxf"
      [] OTHER -> ""

AcceptedExtensions == {".stp", ".step"}

\* worker.py:474: the extension check at the head of the loop body
UnsupportedInputExtension(path) ==
    path # NoPath /\ SplitExtLower(path) \notin AcceptedExtensions

\* xometry_map.get(part_id, {}).get("material")
MaterialOf(map, pid) == IF pid \in DOMAIN map THEN map[pid] ELSE NoMaterial

\* export name templates, as the pieces around the placeholder: the default
\* "<partName>.geo", and "flat_<partName>.geo"
DefaultTemplate == <<"<partName>", ".geo">>
Templates == {DefaultTemplate, <<"flat_", "<partName>", ".geo">>}

\* part.get("partName") or str(part_id or "unknown_part"): the items of the
\* model carry no partName
PartName(item) == item.partId

\* export_name_template.replace("<partName>", part_name)
ExportName(template, part_name) ==
    [k \in 1..Len(template) |->
        IF template[k] = "<partName>" THEN part_name ELSE template[k]]

\* str(Path(export_dir) / export_name)
ExportPath(item) ==
    <<"exportDir">> \o ExportName(exportNameTemplate, PartName(item))

NewPartResult(item, material) ==
    [partId |-> item.partId, inputPath |-> item.path,
     materialFromXometry |-> material, materialUsedInTecZone |-> NoMaterial,
     geoPath |-> NoGeoPath, status |-> "DONE", notes |-> <<>>]

\* one primitive call: what was called, for which item, how it ended, and
\* the value of the pause flag when it was started
Call(prim, item, outcome) ==
    [prim |-> prim, item |-> item, outcome |-> outcome, paused |-> paused]

\* format_overlay_text: the state word, the current action and its item; flag
\* is the value of the pause flag when the text was sent
OverlayText(current, part, is_paused) ==
    [state |-> IF is_paused THEN "PAUSED" ELSE "RUNNING",
     current |-> current, part |-> part, flag |-> paused]

(***************************************************************************)
(* Outcomes of the TecZoneSession primitives, as process_job sees them     *)
(***************************************************************************)
\* connect: returns, raises NeedsHelpError (launch path, main window not
\* found, wrapper failure) or lets an exception of the window enumeration out
ConnectOutcomes == {"ok", "needs_help", "exception"}

\* open_file: an invalid path is refused before any UI interaction
OpenFileOutcomes(path) ==
    IF SplitExtLower(path) \notin AcceptedExtensions
    THEN {"needs_help"}
    ELSE {"ok", "needs_help", "exception"}

\* the notes set_material returns, and the exceptions' messages: records
\* whose field text is the fixed part of the formatted string
NoNote == [text |-> ""]
\* mutant: the note does not name the requested material
FallbackNote_Unnamed(used, material) ==
    [text |-> "material fallback to: ", used |-> used, requested |-> NoMaterial]

\* teczone_actions.py:529
FallbackNote(used, material) ==
    [text |-> "material fallback to: ; requested: ", used |-> used,
     requested |-> material]
SkipNote(message) == [text |-> "material not set: ", message |-> message]

NoExc == [text |-> ""]
Msg(text) == [text |-> text]

\* the labels of the application's material list: "ALU", "INOX 304", "inox"
SelectionLists ==
    { <<>>,
      << <<"A", "L", "U">> >>,
      << <<"A", "L", "U">>, <<"I", "N", "O", "X", " ", "3", "0", "4">> >>,
      << <<"I", "N", "O", "X", " ", "3", "0", "4">>, <<"i", "n", "o", "x">> >> }

\* what dump_window_titles can return
WindowLists == { <<>>, <<"Explorer", "TecZone Bend">> }

\* what get_active_window_title can return when the desktop shows titles:
\* the title of one of the windows, or "" (no title, or get_active raised)
ActiveTitles(titles) == {""} \cup {titles[k] : k \in 1..Len(titles)}

\* set_material: (used_material, note) on return
SetMaterialReturns(material) ==
    { [used |-> <<"I", "N", "O", "X", " ", "3", "0", "4">>, note |-> NoNote],
      [used |-> <<"A", "L", "U">>,
       note |-> FallbackNote(<<"A", "L", "U">>, material)],
      [used |-> NoMaterial, note |-> SkipNote("material menu item not found")] }

SetMaterialOutcomes(material) ==
    IF material = NoMaterial
    THEN {"needs_help"}
    ELSE {"ok", "needs_help", "exception"}

ExportGeoOutcomes == {"ok", "needs_help", "exception"}

CloseActiveFileOutcomes == {"ok", "exception"}

(***************************************************************************)
(* process_job                                                             *)
(***************************************************************************)
Items(n) == [1..n -> Paths]

InitLoopIdle ==
    /\ markers = {}
    /\ wpc = [w \in 1..NumWorkers |-> "idle"]
    /\ wlist = [w \in 1..NumWorkers |-> <<>>]
    /\ wjob = [w \in 1..NumWorkers |-> 0]
    /\ wok = [w \in 1..NumWorkers |-> FALSE]
    /\ wstatus = [w \in 1..NumWorkers |-> "FAILED"]
    /\ passes = 0
    /\ once = FALSE
    /\ runs = [j \in 1..NumJobs |-> 0]
    /\ wraced = [w \in 1..NumWorkers |-> FALSE]

\* no window search in progress
InitWinIdle ==
    /\ teczone_title_re = ""
    /\ desktop = <<>>
    /\ flux_pids = {}
    /\ pattern_ix = 0
    /\ main_window = 0
    /\ dlg = NoDlg
    /\ verdict = NoVerdict

\* no primitive followed through its waits
InitWaitIdle ==
    /\ tz_prim = ""
    /\ tz_pc = ""
    /\ tz_polls = 0
    /\ tz_obs = NoObs
    /\ tz_trace = <<>>
    /\ tz_end = [outcome |-> "", msg |-> NoExc]

\* before worker.py:303 nothing is started
InitSessionVars ==
    /\ overlay = "unset"
    /\ stop_event = FALSE
    /\ listener = "unset"
    /\ timer = [at |-> "unset", shots |-> 0]

\* the overlay wanted and startable, pynput installed, no periodic screenshots
InitSessionIdle ==
    /\ no_overlay = FALSE
    /\ periodic_seconds = 0
    /\ host = [popen_ok |-> TRUE, pynput_ok |-> TRUE, hotkey_ok |-> TRUE]
    /\ InitSessionVars

\* a JSON value of the workflow config: a scalar, or a map from keys to values
EmptyMap == [k \in {} |-> ""]
Scalar(x) == [dict |-> FALSE, val |-> x, map |-> EmptyMap]
Dict(f) == [dict |-> TRUE, val |-> "", map |-> f]

\* teczone_actions.py:36-48: DEFAULT_WORKFLOW as a tree of values, of its keys
\* one scalar and the nested map with two of its entries
DefaultWorkflowTree ==
    Dict([k \in {"materialRequired", "timeouts"} |->
            IF k = "materialRequired" THEN Scalar("False")
            ELSE Dict([j \in {"saveAsSeconds", "exportMenuSeconds"} |->
                          IF j = "saveAsSeconds" THEN Scalar("20")
                          ELSE Scalar("10")])])

\* no session constructed yet; no workflow config file
NotLoaded == Scalar("")
NoConfig == [state |-> "missing", data |-> Scalar("")]

InitMergeIdle ==
    /\ workflow_config = NoConfig
    /\ default_workflow = DefaultWorkflowTree
    /\ merged = NotLoaded

InitExtIdle ==
    InitWinIdle /\ InitWaitIdle /\ InitSessionIdle /\ InitMergeIdle

\* the locals of process_job at its entry (worker.py:290-341)
InitLocals ==
    /\ pc = "load_catalog"
    /\ xometry_map = <<>>
    /\ overall_status = "DONE"
    /\ result = [status |-> "DONE", parts |-> <<>>]
    /\ index = 0
    /\ part_result = NoPart
    /\ step = ""
    /\ opened_document = FALSE
    /\ after = "none"
    /\ cleaned = FALSE
    /\ resultFile = NoResult
    /\ latestFile = NoResult
    /\ needsHelpFile = NoNeedsHelp
    /\ calls = <<>>
    /\ paused = FALSE
    /\ pause_shot_taken = FALSE
    /\ paused_shots = [seen |-> 0, pause |-> 0, n |-> 0]
    /\ waited = FALSE
    /\ toggles = 0
    /\ overlay_text = [state |-> "RUNNING", current |-> "INIT", part |-> 0,
                       flag |-> FALSE]
    /\ exc = NoExc
    /\ polls = 0
    /\ env = NoEnv
    /\ seen_items = <<>>

\* the state at entry of process_job (worker.py:262-270), hotkeys disabled
Init ==
    /\ \E n \in 0..MaxItems : \E ps \in Items(n) :
          inputFiles = [k \in 1..n |-> [partId |-> k, path |-> ps[k]]]
    /\ dryRun \in BOOLEAN
    /\ xometryJson \in {"none", "ok", "bad"}
    /\ \E ids \in SUBSET PartIds : catalog \in [ids -> Materials]
    /\ (xometryJson # "ok" => catalog = <<>>)
    /\ hotkey_enabled = FALSE
    /\ workflow = DEFAULT_WORKFLOW
    /\ exportNameTemplate = DefaultTemplate
    /\ InitLocals
    /\ InitLoopIdle
    /\ InitExtIdle

jobInputs == <<inputFiles, dryRun, xometryJson, catalog, hotkey_enabled,
               workflow, exportNameTemplate>>

\* wait_if_paused has let the pending step through; with the listener not
\* started is_paused() is constantly False and wait_if_paused returns at once
Gate == ~hotkey_enabled \/ waited

\* worker.py:129-145: with pynput importable, keyboard.GlobalHotKeys rejects
\* a hotkey it cannot parse, and nothing in start catches that
HotkeyStartRaises == hotkey_enabled /\ host.pynput_ok /\ ~host.hotkey_ok

\* worker.py:303-328: the overlay, the hotkey listener and the periodic
\* screenshot thread are started; a failing start leaves overlay None, a
\* missing pynput leaves the listener None; an exception of
\* pause_controller.start leaves process_job before the outer try, the
\* periodic thread not yet created
StartSession ==
    /\ overlay' = IF ~no_overlay /\ host.popen_ok THEN "up" ELSE "none"
    /\ stop_event' = FALSE
    /\ IF HotkeyStartRaises
       THEN /\ pc' = "raised"
            /\ listener' = "none"
            /\ UNCHANGED timer
       ELSE /\ pc' = "connect"
            /\ listener' = IF hotkey_enabled /\ host.pynput_ok THEN "running"
                            ELSE "none"
            /\ timer' = [at |-> IF periodic_seconds > 0 THEN "check"
                                ELSE "off",
                         shots |-> 0]

\* worker.py:290-341: the catalog is parsed before the outer try, then the
\* helpers of the session are started
LoadCatalog ==
    /\ pc = "load_catalog"
    /\ IF xometryJson = "ok"
       THEN xometry_map' = catalog /\ UNCHANGED after
            /\ StartSession
       ELSE IF xometryJson = "bad" /\ dryRun
       THEN \* raise NeedsHelpError, outside every try
            pc' = "raised" /\ UNCHANGED <<xometry_map, after, sessionVars>>
       ELSE UNCHANGED <<xometry_map, after>>
            /\ StartSession
    /\ UNCHANGED <<jobInputs, overall_status, result, index, part_result, step,
                   opened_document, cleaned, resultFile, latestFile,
                   needsHelpFile, calls, loopVars, winVars, waitVars,
                   sessionInputs, mergeVars, primVars, pauseVars, overlay_text>>

\* mutant: a connect that needs help fails the job
ConnectNeedsHelpStatus_Failed == "FAILED"

\* worker.py:409: the status a NeedsHelpError of connect gives the job
ConnectNeedsHelpStatus == "NEEDS_HELP"

\* what process_job sees of a primitive call: how it ended and, when it
\* raised, the exception's message
Result(outcome, msg) == [outcome |-> outcome, msg |-> msg]

\* a primitive call of which only the way it ended is known
AbstractResult(o) ==
    Result(o, CASE o = "ok" -> NoExc
                [] o = "needs_help" -> Msg("needs help")
                [] OTHER -> Msg("Exception"))

\* what no action of a primitive call changes
PrimFrame ==
    UNCHANGED <<jobInputs, xometry_map, overall_status, result, index,
                cleaned, resultFile, latestFile, needsHelpFile, paused,
                pause_shot_taken, paused_shots, toggles, loopVars, extVars>>

\* worker.py:396-407: the outer try begins; the session is built and
\* tz.connect() ends as r says
ConnectStep(r) ==
    /\ pc = "connect"
    /\ overlay_text' = OverlayText("CONNECT_TECZONE", 0, FALSE)
    /\ calls' = Append(calls, Call("CONNECT_TECZONE", 0, r.outcome))
    /\ exc' = r.msg
    /\ CASE r.outcome = "ok" -> pc' = "connected" /\ UNCHANGED after
         [] r.outcome = "needs_help" ->
                pc' = "connect_needs_help" /\ UNCHANGED after
         [] OTHER -> pc' = "outer_finally" /\ after' = "raise"
    /\ UNCHANGED <<part_result, step, opened_document, waited, polls,
                   seen_items>>
    /\ PrimFrame

\* worker.py:396-407 with connect as a black box
Connect ==
    /\ \E o \in ConnectOutcomes : ConnectStep(AbstractResult(o))
    /\ UNCHANGED env

\* worker.py:240-252: what write_needs_help writes for a step: the report
\* and windows.json, both from one call of dump_window_titles
NeedsHelpReport(step_name, part, found, titles, active) ==
    [step |-> step_name, part |-> part, found |-> found, active |-> active,
     titles |-> titles, windows_json |-> titles]

\* worker.py:408-434: except NeedsHelpError around connect
ConnectNeedsHelp ==
    /\ pc = "connect_needs_help"
    /\ overall_status' = ConnectNeedsHelpStatus
    /\ \E titles \in WindowLists : \E active \in ActiveTitles(titles) :
          needsHelpFile' = NeedsHelpReport("CONNECT_TECZONE", 0, exc, titles, active)
    /\ result' = [result EXCEPT !.status = overall_status']
    /\ resultFile' = result'
    /\ latestFile' = result'
    /\ after' = "return"
    /\ pc' = "outer_finally"
    /\ UNCHANGED <<jobInputs, xometry_map, index, part_result, step,
                   opened_document, cleaned, calls, loopVars, extVars, primVars,
                   pauseVars, overlay_text>>

\* mutant: the dry run shows its overlay text and goes on into the item loop
DryRun_EntersLoop ==
    /\ pc = "connected"
    /\ dryRun
    /\ overlay_text' = OverlayText("DRY_RUN", 0, FALSE)
    /\ pc' = "loop_head"
    /\ UNCHANGED <<jobInputs, xometry_map, overall_status, result, index,
                   part_result, step, opened_document, after, cleaned,
                   resultFile, latestFile, needsHelpFile, calls, loopVars,
                   extVars, primVars, pauseVars>>

\* worker.py:436-462: the dry run ends the job after connect
DryRun ==
    /\ pc = "connected"
    /\ dryRun
    /\ overlay_text' = OverlayText("DRY_RUN", 0, FALSE)
    /\ result' = [result EXCEPT !.status = "DONE"]
    /\ resultFile' = result'
    /\ latestFile' = result'
    /\ after' = "return"
    /\ pc' = "outer_finally"
    /\ UNCHANGED <<jobInputs, xometry_map, overall_status, index, part_result,
                   step, opened_document, cleaned, needsHelpFile, calls, loopVars, extVars, primVars,
                   pauseVars>>

\* worker.py:464-465: the work-item loop is entered
StartLoop ==
    /\ pc = "connected"
    /\ ~dryRun
    /\ pc' = "loop_head"
    /\ UNCHANGED <<jobInputs, xometry_map, overall_status, result, index,
                   part_result, step, opened_document, after, cleaned,
                   resultFile, latestFile, needsHelpFile, calls, loopVars, extVars, primVars,
                   pauseVars, overlay_text>>

\* worker.py:465: enumerate(input_files) is exhausted
EndLoop ==
    /\ pc = "loop_head"
    /\ index = Len(inputFiles)
    /\ after' = "fall"
    /\ pc' = "outer_finally"
    /\ UNCHANGED <<jobInputs, xometry_map, overall_status, result, index,
                   part_result, step, opened_document, cleaned, resultFile,
                   latestFile, needsHelpFile, calls, loopVars, extVars, primVars,
                   pauseVars, overlay_text>>

\* worker.py:465-490: the head of one loop iteration
BeginItem ==
    /\ pc = "loop_head"
    /\ index < Len(inputFiles)
    /\ index' = index + 1
    /\ LET item == inputFiles[index + 1] IN
       IF UnsupportedInputExtension(item.path)
       THEN \* raise NeedsHelpError, outside the item's try
            /\ after' = "raise"
            /\ pc' = "outer_finally"
            /\ UNCHANGED <<part_result, step, opened_document, seen_items>>
       ELSE /\ part_result' = NewPartResult(item, MaterialOf(xometry_map, item.partId))
            /\ step' = ""
            /\ opened_document' = FALSE
            /\ seen_items' = <<>>
            /\ pc' = "open_file"
            /\ UNCHANGED after
    /\ UNCHANGED <<jobInputs, xometry_map, overall_status, result, cleaned,
                   resultFile, latestFile, needsHelpFile, calls, loopVars, extVars, exc, polls, env,
                   pauseVars, overlay_text>>

\* where a raising primitive sends the item's try
Raised(o) == IF o = "needs_help" THEN "except_needs_help" ELSE "except_exception"

\* worker.py:504-511 (wait_if_paused has returned: Gate); tz.open_file ends
\* as r says
OpenFileStep(r) ==
    /\ pc = "open_file"
    /\ Gate
    /\ step' = "OPEN_FILE"
    /\ overlay_text' = OverlayText("OPEN_FILE", index, FALSE)
    /\ waited' = FALSE
    /\ calls' = Append(calls, Call("OPEN_FILE", index, r.outcome))
    /\ exc' = r.msg
    /\ IF r.outcome = "ok"
       THEN opened_document' = TRUE /\ pc' = "set_material"
       ELSE pc' = Raised(r.outcome) /\ UNCHANGED opened_document
    /\ UNCHANGED <<part_result, after, polls, seen_items>>
    /\ PrimFrame

\* worker.py:504-511 with open_file as a black box
OpenFile ==
    /\ pc = "open_file"
    /\ \E o \in OpenFileOutcomes(inputFiles[index].path) :
          OpenFileStep(AbstractResult(o))
    /\ UNCHANGED env

\* worker.py:513-522; tz.set_material ends as r says, returning
\* (r.used, r.note) when it returns
SetMaterialStep(r) ==
    /\ pc = "set_material"
    /\ Gate
    /\ step' = "SET_MATERIAL"
    /\ overlay_text' = OverlayText("SET_MATERIAL", index, FALSE)
    /\ waited' = FALSE
    /\ calls' = Append(calls, Call("SET_MATERIAL", index, r.outcome))
    /\ exc' = r.msg
    /\ IF r.outcome = "ok"
       THEN /\ part_result' =
                 [part_result EXCEPT
                    !.materialUsedInTecZone = r.used,
                    !.notes = IF r.note # NoNote THEN Append(@, r.note) ELSE @]
            /\ pc' = "export_geo"
       ELSE pc' = Raised(r.outcome) /\ UNCHANGED part_result
    /\ UNCHANGED <<opened_document, after, polls>>
    /\ PrimFrame

\* worker.py:513-522 with set_material as a black box
SetMaterial ==
    /\ \E o \in SetMaterialOutcomes(part_result.materialFromXometry) :
          IF o = "ok"
          THEN \E ret \in SetMaterialReturns(part_result.materialFromXometry) :
                 SetMaterialStep([outcome |-> "ok", msg |-> NoExc,
                                  used |-> ret.used, note |-> ret.note])
          ELSE SetMaterialStep(AbstractResult(o))
    /\ UNCHANGED <<env, seen_items>>

\* worker.py:524-532: the EXPORT_GEO step begins
ExportGeoEnter ==
    /\ pc = "export_geo"
    /\ Gate
    /\ step' = "EXPORT_GEO"
    /\ overlay_text' = OverlayText("EXPORT_GEO", index, FALSE)
    /\ waited' = FALSE

\* worker.py:533-536: tz.export_geo ends as r says
ExportGeoReturn(r) ==
    /\ calls' = Append(calls, Call("EXPORT_GEO", index, r.outcome))
    /\ exc' = r.msg
    /\ IF r.outcome = "ok"
       THEN /\ part_result' =
                 [part_result EXCEPT !.geoPath = ExportPath(inputFiles[index])]
            /\ after' = "append"
            /\ pc' = "item_finally"
       ELSE pc' = Raised(r.outcome) /\ UNCHANGED <<part_result, after>>
    /\ UNCHANGED <<opened_document, seen_items>>
    /\ PrimFrame

\* worker.py:524-536 with export_geo as a black box
ExportGeo ==
    /\ ExportGeoEnter
    /\ \E o \in ExportGeoOutcomes : ExportGeoReturn(AbstractResult(o))
    /\ UNCHANGED <<env, polls>>

\* mutant: NEEDS_HELP is set only while the running status is still DONE
NeedsHelpOverall_OnlyFromDone(overall) ==
    IF overall = "DONE" THEN "NEEDS_HELP" ELSE overall

\* mutant: the handler forgets to set the running status
NeedsHelpOverall_Unchanged(overall) == overall

\* worker.py:541: the running status after a NeedsHelpError of an item
NeedsHelpOverall(overall) == "NEEDS_HELP"

\* mutant: the new Part Result takes the place of the last one appended
Appended_Overwrite(parts, part) ==
    IF parts = <<>> THEN <<part>> ELSE [parts EXCEPT ![Len(parts)] = part]

\* worker.py:560, 595: result["parts"].append(part_result); the dictionary
\* appended is the one bound to part_result, which the next iteration
\* rebinds to a new dictionary (worker.py:478-487) before writing to it
Appended(parts, part) == Append(parts, part)

\* mutant: the handler ends without break, so the loop goes on
AfterNeedsHelp_NoBreak == "append"

\* worker.py:561: break
AfterNeedsHelp == "break"

\* worker.py:538-561: except NeedsHelpError of the item's try
HandleNeedsHelp ==
    /\ pc = "except_needs_help"
    /\ part_result' = [part_result EXCEPT !.status = "NEEDS_HELP",
                                          !.notes = Append(@, exc)]
    /\ overall_status' = NeedsHelpOverall(overall_status)
    /\ \E titles \in WindowLists : \E active \in ActiveTitles(titles) :
          needsHelpFile' = NeedsHelpReport(step, index, exc, titles, active)
    /\ result' = [result EXCEPT !.parts = Appended(@, part_result')]
    /\ after' = AfterNeedsHelp
    /\ pc' = "item_finally"
    /\ UNCHANGED <<jobInputs, xometry_map, index, step, opened_document,
                   cleaned, resultFile, latestFile, calls, loopVars, extVars, primVars,
                   pauseVars, overlay_text>>

\* mutant: the generic handler leaves the Part Result's status as it was
ExceptionPartStatus_Done == "DONE"

\* worker.py:563: the status an item gets from another exception
ExceptionPartStatus == "FAILED"

\* mutant: any failed item makes the running status FAILED
ExceptionOverall_Failed(overall) == IF overall = "DONE" THEN "FAILED" ELSE overall

\* worker.py:583-584
ExceptionOverall(overall) == IF overall = "DONE" THEN "PARTIAL" ELSE overall

\* mutant: the generic handler leaves the loop as the NeedsHelp handler does
AfterException_Break == "break"

\* worker.py:585-595: after except Exception the loop goes on to line 595
AfterException == "append"

\* worker.py:562-584: except Exception of the item's try
HandleException ==
    /\ pc = "except_exception"
    /\ part_result' = [part_result EXCEPT !.status = ExceptionPartStatus,
                                          !.notes = Append(@,
                                              [text |-> "Exception: ", of |-> exc])]
    /\ overall_status' = ExceptionOverall(overall_status)
    /\ after' = AfterException
    /\ pc' = "item_finally"
    /\ UNCHANGED <<jobInputs, xometry_map, result, index, step, opened_document,
                   cleaned, resultFile, latestFile, needsHelpFile, calls, loopVars, extVars, primVars,
                   pauseVars, overlay_text>>

\* mutant: the finally closes the active document whether or not one was opened
ShouldClose_Always(opened) == TRUE

\* worker.py:587: if opened_document
ShouldClose(opened) == opened

\* worker.py:585-593: finally of the item's try; a failing close is only logged
ItemFinally ==
    /\ pc = "item_finally"
    /\ IF ShouldClose(opened_document)
       THEN /\ Gate
            /\ overlay_text' = OverlayText("CLOSE_FILE", index, FALSE)
            /\ waited' = FALSE
            /\ \E o \in CloseActiveFileOutcomes :
                  calls' = Append(calls, Call("CLOSE_FILE", index, o))
       ELSE UNCHANGED <<calls, overlay_text, waited>>
    /\ IF after = "break"
       THEN pc' = "outer_finally" /\ after' = "fall"
       ELSE pc' = "append" /\ UNCHANGED after
    /\ UNCHANGED <<jobInputs, xometry_map, overall_status, result, index,
                   part_result, step, opened_document, cleaned, resultFile,
                   latestFile, needsHelpFile, loopVars, extVars, primVars,
                   paused, pause_shot_taken, paused_shots, toggles>>

\* worker.py:595
AppendPart ==
    /\ pc = "append"
    /\ result' = [result EXCEPT !.parts = Appended(@, part_result)]
    /\ pc' = "loop_head"
    /\ UNCHANGED <<jobInputs, xometry_map, overall_status, index, part_result,
                   step, opened_document, after, cleaned, resultFile,
                   latestFile, needsHelpFile, calls, loopVars, extVars, primVars,
                   pauseVars, overlay_text>>

\* worker.py:596-600 with overlay.py:111-126 and worker.py:151-153: finally
\* of the outer try
Cleanup ==
    /\ pc = "outer_finally"
    /\ cleaned' = TRUE
    /\ stop_event' = TRUE
    /\ listener' = IF listener = "running" THEN "stopped" ELSE listener
    /\ overlay' = IF overlay \in {"up", "down"} THEN "stopped" ELSE overlay
    /\ pc' = CASE after = "return" -> "returned"
               [] after = "raise" -> "raised"
               [] OTHER -> "aggregate"
    /\ UNCHANGED <<jobInputs, xometry_map, overall_status, result, index,
                   part_result, step, opened_document, after, resultFile,
                   latestFile, needsHelpFile, calls, loopVars, winVars,
                   waitVars, sessionInputs, mergeVars, timer, primVars,
                   pauseVars, overlay_text>>

HasStatus(parts, s) == \E k \in 1..Len(parts) : parts[k].status = s

\* mutant: "FAILED if no item reached DONE", taken to cover the empty list too
AggregateStatus_NoDoneIsFailed(overall, parts) ==
    IF overall = "DONE" /\ ~HasStatus(parts, "DONE") THEN "FAILED" ELSE overall

\* worker.py:602-603
AggregateStatus(overall, parts) ==
    IF overall = "DONE" /\ HasStatus(parts, "FAILED")
    THEN (IF HasStatus(parts, "DONE") THEN "PARTIAL" ELSE "FAILED")
    ELSE overall

\* worker.py:602-643: the Job Result is written and process_job returns
Finish ==
    /\ pc = "aggregate"
    /\ overall_status' = AggregateStatus(overall_status, result.parts)
    /\ result' = [result EXCEPT !.status = overall_status']
    /\ resultFile' = result'
    /\ latestFile' = result'
    /\ pc' = "returned"
    /\ UNCHANGED <<jobInputs, xometry_map, index, part_result, step,
                   opened_document, after, cleaned, needsHelpFile, calls, loopVars, extVars, primVars,
                   pauseVars, overlay_text>>

Next ==
    \/ LoadCatalog
    \/ Connect
    \/ ConnectNeedsHelp
    \/ DryRun
    \/ StartLoop
    \/ EndLoop
    \/ BeginItem
    \/ OpenFile
    \/ SetMaterial
    \/ ExportGeo
    \/ HandleNeedsHelp
    \/ HandleException
    \/ ItemFinally
    \/ AppendPart
    \/ Cleanup
    \/ Finish

Spec == Init /\ [][Next]_vars

(***************************************************************************)
(* process_job with the pause hotkey enabled                               *)
(***************************************************************************)
\* the step wait_if_paused is called for at the current position
PendingStep ==
    CASE pc = "open_file" -> "OPEN_FILE"
      [] pc = "set_material" -> "SET_MATERIAL"
      [] pc = "export_geo" -> "EXPORT_GEO"
      [] OTHER -> "CLOSE_FILE"

\* the positions of process_job that call wait_if_paused
AtWaitPoint ==
    \/ pc \in {"open_file", "set_material", "export_geo"}
    \/ pc = "item_finally" /\ ShouldClose(opened_document)

\* mutant: the listener is started whether or not hotkeys are enabled
Toggle_AnyJob ==
    /\ pc \notin {"load_catalog", "returned", "raised", "idle"}
    /\ ~cleaned
    /\ toggles < MaxToggles
    /\ toggles' = toggles + 1
    /\ paused' = ~paused
    /\ UNCHANGED <<jobInputs, pc, xometry_map, overall_status, result, index,
                   part_result, step, opened_document, after, cleaned,
                   pause_shot_taken, paused_shots, waited, overlay_text,
                   resultFile,
                   latestFile, needsHelpFile, calls, loopVars, extVars, primVars>>

\* worker.py:135-139: the hotkey listener thread flips the flag; it runs from
\* pause_controller.start (line 321) to pause_controller.stop (line 598)
Toggle ==
    /\ hotkey_enabled
    /\ pc \notin {"load_catalog", "returned", "raised", "idle"}
    /\ ~cleaned
    /\ toggles < MaxToggles
    /\ toggles' = toggles + 1
    /\ paused' = ~paused
    /\ UNCHANGED <<jobInputs, pc, xometry_map, overall_status, result, index,
                   part_result, step, opened_document, after, cleaned,
                   pause_shot_taken, paused_shots, waited, overlay_text,
                   resultFile,
                   latestFile, needsHelpFile, calls, loopVars, extVars, primVars>>

\* worker.py:496-498: if not pause_shot_taken: screenshotter.snap("paused")
TakesPausedShot(taken) == ~taken

\* worker.py:492-501 (with the assignment of `step` that precedes the call):
\* one test of the while condition of wait_if_paused
WaitIfPaused ==
    /\ hotkey_enabled
    /\ AtWaitPoint
    /\ ~waited
    /\ step' = IF pc = "item_finally" THEN step ELSE PendingStep
    /\ IF paused
       THEN /\ overlay_text' = OverlayText(PendingStep, index, TRUE)
            /\ paused_shots' =
                  IF ~TakesPausedShot(pause_shot_taken)
                  THEN [paused_shots EXCEPT !.seen = toggles]
                  ELSE IF paused_shots.pause # toggles
                  THEN [seen |-> toggles, pause |-> toggles, n |-> 1]
                  ELSE [paused_shots EXCEPT
                           !.seen = toggles,
                           !.n = IF @ < 2 THEN @ + 1 ELSE @]
            /\ pause_shot_taken' = TRUE
            /\ UNCHANGED waited
       ELSE /\ pause_shot_taken' = FALSE
            /\ waited' = TRUE
            /\ UNCHANGED <<overlay_text, paused_shots>>
    /\ UNCHANGED <<jobInputs, pc, xometry_map, overall_status, result, index,
                   part_result, opened_document, after, cleaned, paused,
                   toggles, resultFile, latestFile, needsHelpFile, calls,
                   loopVars, extVars, primVars>>

\* the state at entry of process_job, hotkeys enabled
InitPause ==
    /\ \E n \in 0..MaxPauseItems :
          inputFiles = [k \in 1..n |-> [partId |-> k, path |-> "part.stp"]]
    /\ dryRun \in BOOLEAN
    /\ xometryJson = "ok"
    /\ catalog \in [1..Len(inputFiles) -> Materials]
    /\ hotkey_enabled = TRUE
    /\ workflow = DEFAULT_WORKFLOW
    /\ exportNameTemplate = DefaultTemplate
    /\ InitLocals
    /\ InitLoopIdle
    /\ InitExtIdle

NextPause ==
    \/ Next
    \/ Toggle
    \/ WaitIfPaused

SpecPause == InitPause /\ [][NextPause]_vars

(***************************************************************************)
(* The primitives of TecZoneSession (teczone_actions.py), computed from    *)
(* what the target application shows when they run                         *)
(***************************************************************************)
\* str.lower(), on the characters that occur in the names
Lower(c) ==
    CASE c = "A" -> "a" [] c = "I" -> "i" [] c = "L" -> "l" [] c = "N" -> "n"
      [] c = "O" -> "o" [] c = "U" -> "u" [] c = "X" -> "x" [] OTHER -> c

ToLower(s) == [k \in 1..Len(s) |-> Lower(s[k])]

\* needle in hay
Contains(hay, needle) ==
    \E i \in 0..(Len(hay) - Len(needle)) :
        SubSeq(hay, i + 1, i + Len(needle)) = needle

\* dump_window_titles()[:30]
MaxCandidates == 30
Candidates(titles) ==
    SubSeq(titles, 1, IF Len(titles) < MaxCandidates THEN Len(titles)
                      ELSE MaxCandidates)

\* flux_running: _is_flux_running(); launch_path: a launch path resolves;
\* launch_ok: Application.start returns; enum_ok: the window enumeration of
\* _find_main_window does not raise; win: the main window is found before the
\* deadline; wrapper_ok: wrapper_object() and window_text() return; titles:
\* dump_window_titles(). What a call does not come to read is left FALSE (<<>>).
ConnectEnvs ==
    { e \in [flux_running : BOOLEAN, launch_path : BOOLEAN,
             launch_ok : BOOLEAN, enum_ok : BOOLEAN, win : BOOLEAN,
             wrapper_ok : BOOLEAN, titles : WindowLists] :
        /\ e.launch_path => ~e.flux_running
        /\ e.launch_ok => e.launch_path
        /\ e.enum_ok => (e.flux_running \/ e.launch_ok)
        /\ e.win => e.enum_ok
        /\ e.wrapper_ok => e.win
        /\ e.titles # <<>> => (e.enum_ok /\ ~e.win) }

\* teczone_actions.py:259-300
connect(e) ==
    IF ~e.flux_running /\ ~e.launch_path
    THEN Result("needs_help",
                Msg("Flux.exe not running; could not resolve launch path"))
    ELSE IF ~e.flux_running /\ ~e.launch_ok
    THEN Result("needs_help", Msg("Flux.exe not running; launch failed"))
    ELSE IF ~e.enum_ok
    THEN Result("exception", Msg("Exception"))
    ELSE IF ~e.win
    THEN Result("needs_help",
                [text |-> "main window not found; candidate windows: ",
                 flux_running |-> e.flux_running,
                 candidates |-> Candidates(e.titles)])
    ELSE IF ~e.wrapper_ok
    THEN Result("needs_help", Msg("TecZone main window wrapper failed"))
    ELSE Result("ok", NoExc)

\* exists: the file is there; focus_ok: main.set_focus() returns; dlg1: the
\* Open dialog appears after Ctrl+O; menu_ok: a menu_select works; dlg2: the
\* dialog appears after the menu; fill_ok: filling the name and pressing Open
\* work; closing: how the wait for the dialog to close ends ("" when it is
\* not reached). What a call does not come to read is left FALSE.
OpenFileEnvs ==
    { e \in [exists : BOOLEAN, focus_ok : BOOLEAN, dlg1 : BOOLEAN,
             menu_ok : BOOLEAN, dlg2 : BOOLEAN, fill_ok : BOOLEAN,
             closing : {"", "closed", "unexpected", "timeout"}] :
        /\ e.focus_ok => e.exists
        /\ e.dlg1 => e.focus_ok
        /\ e.menu_ok => (e.focus_ok /\ ~e.dlg1)
        /\ e.dlg2 => e.menu_ok
        /\ e.fill_ok => (e.dlg1 \/ e.dlg2)
        /\ e.closing # "" <=> e.fill_ok }

UIResult(outcome, msg, ui) == [outcome |-> outcome, msg |-> msg, ui |-> ui]

\* Path(normalize_windows_path(path)).exists(): no path normalizes to "",
\* the current directory
PathExists(path, e) == path = NoPath \/ e.exists

\* mutant: the main window is focused before the path is validated
UIBeforeValidation_Focus == {"set_focus"}

\* teczone_actions.py:303-307: the UI interactions made before the path is
\* validated
UIBeforeValidation == {}

\* teczone_actions.py:302-389; ui is the set of UI interactions attempted
open_file(path, e) ==
    IF ~PathExists(path, e)
    THEN UIResult("needs_help", Msg("Input file not found"), UIBeforeValidation)
    ELSE IF SplitExtLower(path) \notin AcceptedExtensions
    THEN UIResult("needs_help", Msg("Unsupported input extension"),
                  UIBeforeValidation)
    ELSE IF ~e.focus_ok
    THEN UIResult("exception", Msg("Exception"),
                  UIBeforeValidation \cup {"set_focus"})
    ELSE LET ui1 == UIBeforeValidation
                        \cup {"set_focus", "send_keys", "dialog_search"}
             ui2 == IF e.dlg1 THEN ui1 ELSE ui1 \cup {"menu_select"}
             ui3 == ui2 \cup {"set_file_name"}
         IN IF ~e.dlg1 /\ ~e.menu_ok
            THEN UIResult("needs_help",
                     Msg("Open dialog not found and menu fallback failed"), ui2)
            ELSE IF ~e.dlg1 /\ ~e.dlg2
            THEN UIResult("needs_help", Msg("Open dialog not found"), ui2)
            ELSE IF ~e.fill_ok
            THEN UIResult("needs_help", Msg("Open dialog interaction failed"),
                          ui3)
            ELSE CASE e.closing = "unexpected" ->
                        UIResult("needs_help",
                                 Msg("Unexpected dialog while opening file"), ui3)
                   [] e.closing = "timeout" ->
                        UIResult("needs_help",
                                 Msg("Open dialog did not close within 90 seconds"),
                                 ui3)
                   [] OTHER -> UIResult("ok", NoExc, ui3)

\* focus_ok: main.set_focus() returns; menu: how the material menu item is
\* reached ("" when it is not tried); dialog: the material dialog appears;
\* items: the labels of its list; click_ok: the clicks on the list item and
\* on OK return; unexpected: find_unexpected_dialog finds one after OK. What
\* a call does not come to read is left FALSE (<<>>).
SetMaterialEnvs ==
    { e \in [focus_ok : BOOLEAN,
             menu : {"", "direct", "fallback", "none", "unclickable"},
             dialog : BOOLEAN, items : SelectionLists, click_ok : BOOLEAN,
             unexpected : BOOLEAN] :
        /\ e.menu # "" <=> e.focus_ok
        /\ e.dialog => e.menu \in {"direct", "fallback"}
        /\ e.items # <<>> => e.dialog
        /\ e.click_ok => e.items # <<>>
        /\ e.unexpected => e.click_ok }

MaterialResult(outcome, msg, used, note) ==
    [outcome |-> outcome, msg |-> msg, used |-> used, note |-> note]

\* teczone_actions.py:429-433
maybe_fail_or_skip(material_required, message) ==
    IF material_required
    THEN MaterialResult("needs_help", Msg(message), NoMaterial, NoNote)
    ELSE MaterialResult("ok", NoExc, NoMaterial, SkipNote(message))

\* mutant: the labels are compared as they are written
MatchIndex_CaseSensitive(items, material) ==
    LET hits == {k \in 1..Len(items) : Contains(items[k], material)}
    IN IF hits = {} THEN 0 ELSE CHOOSE k \in hits : \A j \in hits : k <= j

\* teczone_actions.py:519-524: the first list item whose label contains the
\* material, case-insensitively; 0 when there is none
MatchIndex(items, material) ==
    LET hits == {k \in 1..Len(items) :
                    Contains(ToLower(items[k]), ToLower(material))}
    IN IF hits = {} THEN 0 ELSE CHOOSE k \in hits : \A j \in hits : k <= j

\* set_material gets as far as reading the list of the dialog
ReadsList(material, e) ==
    /\ material # NoMaterial
    /\ e.focus_ok
    /\ e.menu \in {"direct", "fallback"}
    /\ e.dialog

\* teczone_actions.py:424-541
set_material(material, wf, e) ==
    IF material = NoMaterial
    THEN MaterialResult("needs_help",
             Msg("Material from Xometry missing; material is required"),
             NoMaterial, NoNote)
    ELSE IF ~e.focus_ok
    THEN MaterialResult("exception", Msg("Exception"), NoMaterial, NoNote)
    ELSE IF e.menu = "none"
    THEN maybe_fail_or_skip(wf.materialRequired, "material menu item not found")
    ELSE IF e.menu = "unclickable"
    THEN maybe_fail_or_skip(wf.materialRequired,
                            "material menu item could not be clicked")
    ELSE IF ~e.dialog
    THEN maybe_fail_or_skip(wf.materialRequired,
                            "material selection dialog not found")
    ELSE IF e.items = <<>>
    THEN maybe_fail_or_skip(wf.materialRequired, "material list items not found")
    ELSE LET k == MatchIndex(e.items, material)
             used == IF k > 0 THEN e.items[k] ELSE e.items[1]
             note == IF k > 0 THEN NoNote ELSE FallbackNote(used, material)
         IN IF ~e.click_ok
            THEN MaterialResult("exception", Msg("Exception"), NoMaterial,
                                NoNote)
            ELSE IF e.unexpected
            THEN MaterialResult("needs_help",
                     Msg("Unexpected dialog after setting material"),
                     NoMaterial, NoNote)
            ELSE MaterialResult("ok", NoExc, used, note)

\* focus_ok, bend_keys_ok: set_focus and type_keys return; bend_unexpected:
\* an unexpected dialog shows after the bend hotkey; menu: how
\* _open_export_menu ends ("" when it is not reached); save_dlg: the Save As
\* dialog appears; interact_ok: typing the name and pressing Save work. What
\* a call does not come to read is left FALSE.
ExportGeoEnvs(wf) ==
    { e \in [focus_ok : BOOLEAN, bend_keys_ok : BOOLEAN,
             bend_unexpected : BOOLEAN,
             menu : {"", "ok", "needs_help", "error"}, save_dlg : BOOLEAN,
             interact_ok : BOOLEAN] :
        /\ e.bend_keys_ok => (e.focus_ok /\ wf.useEnterBend)
        /\ e.bend_unexpected => e.bend_keys_ok
        /\ e.menu # "" <=>
              /\ e.focus_ok
              /\ wf.useEnterBend => (e.bend_keys_ok /\ ~e.bend_unexpected)
        /\ e.save_dlg => e.menu = "ok"
        /\ e.interact_ok => e.save_dlg }

\* teczone_actions.py:618-723: export_geo up to its completion loop
export_geo_start(wf, e) ==
    IF ~e.focus_ok
    THEN Result("exception", Msg("Exception"))
    ELSE IF wf.useEnterBend /\ ~e.bend_keys_ok
    THEN Result("exception", Msg("Exception"))
    ELSE IF wf.useEnterBend /\ e.bend_unexpected
    THEN Result("needs_help",
                Msg("Unexpected dialog while entering bend mode"))
    ELSE IF e.menu = "needs_help"
    THEN Result("needs_help", Msg("Export menu item not found via fallback"))
    ELSE IF e.menu = "error"
    THEN Result("needs_help", Msg("Export menu open failed"))
    ELSE IF ~e.save_dlg
    THEN Result("needs_help", Msg("Save As dialog not found"))
    ELSE IF ~e.interact_ok
    THEN Result("needs_help", Msg("Save As interaction failed"))
    ELSE Result("polling", NoExc)

\* what one iteration of the completion loop finds: overwrite:
\* find_overwrite_dialog; confirm_ok: confirm_overwrite_dialog; unexpected:
\* find_unexpected_dialog; save_present: save_dialog_present; file_ok: the
\* output file exists with a size above zero. What an iteration does not come
\* to read is left FALSE.
PollObservations ==
    { o \in [overwrite : BOOLEAN, confirm_ok : BOOLEAN, unexpected : BOOLEAN,
             save_present : BOOLEAN, file_ok : BOOLEAN] :
        /\ o.confirm_ok => o.overwrite
        /\ o.unexpected => ~o.overwrite
        /\ (o.save_present \/ o.file_ok) => (~o.overwrite /\ ~o.unexpected) }

\* teczone_actions.py:726-754: one iteration of the completion loop
export_geo_poll(obs) ==
    IF obs.overwrite
    THEN IF obs.confirm_ok
         THEN Result("continue", NoExc)
         ELSE Result("needs_help",
                  Msg("Overwrite dialog detected but could not confirm overwrite"))
    ELSE IF obs.unexpected
    THEN Result("needs_help", Msg("Unexpected dialog during export"))
    ELSE IF ~obs.save_present /\ obs.file_ok
    THEN Result("ok", NoExc)
    ELSE IF obs.file_ok
    THEN Result("ok", NoExc)
    ELSE Result("continue", NoExc)

\* mutant: the timeout raises a RuntimeError, as line 711 does
ExportTimeoutRaises_RuntimeError == "exception"

\* teczone_actions.py:758: raise NeedsHelpError
ExportTimeoutRaises == "needs_help"

\* teczone_actions.py:756-760: the deadline has passed
export_geo_timeout ==
    Result(ExportTimeoutRaises,
           Msg("Export GEO failed: file missing or empty after timeout"))

(***************************************************************************)
(* process_job over these primitives                                       *)
(***************************************************************************)
\* what the last primitive called found: the primitive, the item, what it
\* observed, and whether it gave up at its deadline
Seen(prim, item, obs) ==
    [prim |-> prim, item |-> item, obs |-> obs, timeout |-> FALSE]

\* worker.py:396-407 and teczone_actions.py:259-300
ConnectUI ==
    \E e \in ConnectEnvs :
        /\ ConnectStep(connect(e))
        /\ env' = Seen("CONNECT_TECZONE", 0, e)

\* worker.py:504-511 and teczone_actions.py:302-389
OpenFileUI ==
    /\ pc = "open_file"
    /\ \E e \in OpenFileEnvs :
          LET r == open_file(inputFiles[index].path, e)
          IN /\ OpenFileStep(r)
             /\ env' = [Seen("OPEN_FILE", index, e) EXCEPT !.obs =
                          [exists |-> PathExists(inputFiles[index].path, e),
                           ui |-> r.ui]]

\* worker.py:513-522 and teczone_actions.py:424-541
SetMaterialUI ==
    /\ pc = "set_material"
    /\ \E e \in SetMaterialEnvs :
          LET material == part_result.materialFromXometry
          IN /\ SetMaterialStep(set_material(material, workflow, e))
             /\ env' = Seen("SET_MATERIAL", index, e)
             /\ seen_items' = IF ReadsList(material, e) THEN e.items ELSE <<>>

\* worker.py:524-533 and teczone_actions.py:618-725: export_geo fails before
\* its completion loop or enters it
ExportGeoBegin ==
    /\ ExportGeoEnter
    /\ \E e \in ExportGeoEnvs(workflow) :
          LET r == export_geo_start(workflow, e)
          IN /\ env' = Seen("EXPORT_GEO", index, e)
             /\ IF r.outcome = "polling"
                THEN /\ pc' = "export_poll"
                     /\ UNCHANGED <<calls, exc, part_result, after,
                                    opened_document, seen_items>>
                     /\ PrimFrame
                ELSE ExportGeoReturn(r)
    /\ polls' = 0

\* teczone_actions.py:726-754: one iteration of the completion loop, before
\* the deadline
ExportPoll ==
    /\ pc = "export_poll"
    /\ polls < MaxPolls
    /\ \E obs \in PollObservations :
          LET r == export_geo_poll(obs)
          IN /\ env' = Seen("EXPORT_GEO", index, obs)
             /\ IF r.outcome = "continue"
                THEN /\ polls' = polls + 1
                     /\ UNCHANGED <<pc, calls, exc, part_result, after,
                                    opened_document, seen_items>>
                     /\ PrimFrame
                ELSE /\ polls' = 0
                     /\ ExportGeoReturn(r)
    /\ UNCHANGED <<step, overlay_text, waited>>

\* teczone_actions.py:726 and 756-760: the deadline has passed
ExportTimeout ==
    /\ pc = "export_poll"
    /\ ExportGeoReturn(export_geo_timeout)
    /\ env' = [env EXCEPT !.timeout = TRUE]
    /\ polls' = 0
    /\ UNCHANGED <<step, overlay_text, waited>>

\* the state at entry of process_job for a job of valid and invalid paths,
\* with or without catalog, under each workflow configuration
InitSteps ==
    /\ \E n \in 0..MaxStepItems : \E ps \in [1..n -> Paths] :
          inputFiles = [k \in 1..n |-> [partId |-> k, path |-> ps[k]]]
    /\ dryRun = FALSE
    /\ xometryJson \in {"none", "ok"}
    /\ \E ids \in SUBSET (1..Len(inputFiles)) : catalog \in [ids -> Materials]
    /\ (xometryJson # "ok" => catalog = <<>>)
    /\ hotkey_enabled = FALSE
    /\ workflow \in [materialRequired : BOOLEAN, useEnterBend : BOOLEAN]
    /\ exportNameTemplate \in Templates
    /\ InitLocals
    /\ InitLoopIdle
    /\ InitExtIdle

NextSteps ==
    \/ LoadCatalog
    \/ ConnectUI
    \/ ConnectNeedsHelp
    \/ StartLoop
    \/ EndLoop
    \/ BeginItem
    \/ OpenFileUI
    \/ SetMaterialUI
    \/ ExportGeoBegin
    \/ ExportPoll
    \/ ExportTimeout
    \/ HandleNeedsHelp
    \/ HandleException
    \/ ItemFinally
    \/ AppendPart
    \/ Cleanup
    \/ Finish

SpecSteps == InitSteps /\ [][NextSteps]_vars

\* the state at entry of process_job for the jobs of the end-to-end
\* scenarios: every item a STEP file with a material in the catalog, the
\* default workflow
InitScenario ==
    /\ \E n \in 1..MaxScenarioItems :
          /\ inputFiles = [k \in 1..n |-> [partId |-> k, path |-> "part.stp"]]
          /\ catalog \in [1..n -> Materials]
    /\ dryRun = FALSE
    /\ xometryJson = "ok"
    /\ hotkey_enabled = FALSE
    /\ workflow = DEFAULT_WORKFLOW
    /\ exportNameTemplate = DefaultTemplate
    /\ InitLocals
    /\ InitLoopIdle
    /\ InitExtIdle

SpecScenario == InitScenario /\ [][NextSteps]_vars

(***************************************************************************)
(* run_loop, claim_job, release_job                                        *)
(***************************************************************************)
Workers == 1..NumWorkers
Jobs == 1..NumJobs

\* sorted(jobs_dir.glob("*.json")): the descriptors, in order
SortedJobs == [k \in 1..NumJobs |-> k]

\* the statuses process_job returns (Finish, ConnectNeedsHelp, DryRun)
ProcessJobReturns == {"DONE", "PARTIAL", "NEEDS_HELP"}

\* mutant: every released marker says done
StatusLower_Done(status) == "done"

\* status.lower()
StatusLower(status) ==
    CASE status = "DONE" -> "done"
      [] status = "PARTIAL" -> "partial"
      [] status = "NEEDS_HELP" -> "needs_help"
      [] OTHER -> "failed"

Processing(j) == <<j, "processing">>

InitJobIdleLocals ==
    /\ inputFiles = <<>>
    /\ dryRun = FALSE
    /\ xometryJson = "none"
    /\ catalog = <<>>
    /\ pc = "idle"
    /\ xometry_map = <<>>
    /\ overall_status = "DONE"
    /\ result = [status |-> "DONE", parts |-> <<>>]
    /\ index = 0
    /\ part_result = NoPart
    /\ step = ""
    /\ opened_document = FALSE
    /\ after = "none"
    /\ cleaned = FALSE
    /\ resultFile = NoResult
    /\ latestFile = NoResult
    /\ needsHelpFile = NoNeedsHelp
    /\ calls = <<>>
    /\ exc = NoExc
    /\ polls = 0
    /\ env = NoEnv
    /\ seen_items = <<>>
    /\ exportNameTemplate = DefaultTemplate
    /\ hotkey_enabled = FALSE
    /\ paused = FALSE
    /\ pause_shot_taken = FALSE
    /\ paused_shots = [seen |-> 0, pause |-> 0, n |-> 0]
    /\ waited = FALSE
    /\ toggles = 0
    /\ overlay_text = [state |-> "RUNNING", current |-> "INIT", part |-> 0,
                       flag |-> FALSE]

InitJobIdle == workflow = DEFAULT_WORKFLOW /\ InitJobIdleLocals

\* the state at entry of run_loop in every worker (worker.py:656-658)
InitLoop ==
    /\ markers = {}
    /\ wpc = [w \in Workers |-> "scan"]
    /\ wlist = [w \in Workers |-> <<>>]
    /\ wjob = [w \in Workers |-> 0]
    /\ wok = [w \in Workers |-> FALSE]
    /\ wstatus = [w \in Workers |-> "FAILED"]
    /\ passes = 0
    /\ once \in BOOLEAN
    /\ runs = [j \in Jobs |-> 0]
    /\ wraced = [w \in Workers |-> FALSE]
    /\ InitJobIdle
    /\ InitExtIdle

\* worker.py:660-661: one polling pass begins
Scan(w) ==
    /\ wpc[w] = "scan"
    /\ passes < MaxPasses
    /\ passes' = passes + 1
    /\ wlist' = [wlist EXCEPT ![w] = SortedJobs]
    /\ wpc' = [wpc EXCEPT ![w] = "next"]
    /\ UNCHANGED <<markers, wjob, wok, wstatus, once, runs, wraced, jobVars>>

\* worker.py:661-666: the next descriptor is read; an unreadable one is skipped
NextJob(w) ==
    /\ wpc[w] = "next"
    /\ wlist[w] # <<>>
    /\ wlist' = [wlist EXCEPT ![w] = Tail(@)]
    /\ \E readable \in BOOLEAN :
          IF readable
          THEN LET j == Head(wlist[w])
                   rivals == {v \in Workers \ {w} : wpc[v] = "claim" /\ wjob[v] = j}
                   race == rivals # {} /\ Processing(j) \notin markers
               IN /\ wjob' = [wjob EXCEPT ![w] = j]
                  /\ wpc' = [wpc EXCEPT ![w] = "claim"]
                  /\ wraced' = [v \in Workers |->
                                  IF v = w THEN race
                                  ELSE IF race /\ v \in rivals THEN TRUE
                                  ELSE wraced[v]]
          ELSE UNCHANGED <<wjob, wpc, wraced>>
    /\ UNCHANGED <<markers, wok, wstatus, passes, once, runs, jobVars>>

\* mutant: the marker is opened for writing, not for exclusive creation
MarkerExists_Never(j) == FALSE

\* worker.py:225,228: open(marker, "x") raises FileExistsError
MarkerExists(j) == Processing(j) \in markers

\* worker.py:221-229 and 668-673: claim_job and what run_loop does with it
ClaimJob(w) ==
    /\ wpc[w] = "claim"
    /\ IF MarkerExists(wjob[w])
       THEN /\ wok' = [wok EXCEPT ![w] = FALSE]
            /\ wpc' = [wpc EXCEPT ![w] = "next"]
            /\ UNCHANGED <<markers, runs, wstatus>>
       ELSE /\ markers' = markers \cup {Processing(wjob[w])}
            /\ wok' = [wok EXCEPT ![w] = TRUE]
            /\ wstatus' = [wstatus EXCEPT ![w] = "FAILED"]
            /\ runs' = [runs EXCEPT ![wjob[w]] = @ + 1]
            /\ wpc' = [wpc EXCEPT ![w] = "process"]
    /\ UNCHANGED <<wlist, wjob, passes, once, wraced, jobVars>>

\* worker.py:674-701: process_job returns a status or raises
ProcessJob(w) ==
    /\ wpc[w] = "process"
    /\ \/ \E s \in ProcessJobReturns : wstatus' = [wstatus EXCEPT ![w] = s]
       \/ wstatus' = [wstatus EXCEPT ![w] = "FAILED"]
    /\ wpc' = [wpc EXCEPT ![w] = "release"]
    /\ UNCHANGED <<markers, wlist, wjob, wok, passes, once, runs, wraced, jobVars>>

\* worker.py:232-237 and 702-706: release_job; a failing rename is swallowed.
\* The local `status` is dead once release_job has read it (line 673 assigns
\* it anew for the next claimed job), so it goes back to its line-673 value.
ReleaseJob(w) ==
    /\ wpc[w] = "release"
    /\ \/ markers' = (markers \ {Processing(wjob[w])})
                        \cup {<<wjob[w], StatusLower(wstatus[w])>>}
       \/ UNCHANGED markers
    /\ wstatus' = [wstatus EXCEPT ![w] = "FAILED"]
    /\ wpc' = [wpc EXCEPT ![w] = IF once THEN "exited" ELSE "next"]
    /\ UNCHANGED <<wlist, wjob, wok, passes, once, runs, wraced, jobVars>>

\* worker.py:708-710: the pass is over
EndPass(w) ==
    /\ wpc[w] = "next"
    /\ wlist[w] = <<>>
    /\ wpc' = [wpc EXCEPT ![w] = IF once THEN "exited" ELSE "scan"]
    /\ UNCHANGED <<markers, wlist, wjob, wok, wstatus, passes, once, runs,
                   wraced, jobVars>>

NextLoop ==
    \E w \in Workers :
        \/ Scan(w)
        \/ NextJob(w)
        \/ ClaimJob(w)
        \/ ProcessJob(w)
        \/ ReleaseJob(w)
        \/ EndPass(w)

SpecLoop == InitLoop /\ [][NextLoop]_vars

(***************************************************************************)
(* Claims about process_job (checked under Spec)                           *)
(***************************************************************************)
Terminated == pc \in {"returned", "raised"}

MajorCall(k, outcome) ==
    calls[k].prim \in MajorSteps /\ calls[k].outcome = outcome

NeedsHelpAt(i) == \E k \in 1..Len(calls) : MajorCall(k, "needs_help") /\ calls[k].item = i
ExceptionAt(i) == \E k \in 1..Len(calls) : MajorCall(k, "exception") /\ calls[k].item = i
ConnectRaisedNeedsHelp ==
    \E k \in 1..Len(calls) :
        calls[k].prim = "CONNECT_TECZONE" /\ calls[k].outcome = "needs_help"

AllDone(parts) == \A k \in 1..Len(parts) : parts[k].status = "DONE"

\* C1: once open_file, set_material or export_geo has raised NeedsHelpError
\* for work item i, no open_file, set_material or export_geo is started for a
\* later work item, and process_job returns with a Job Result of status
\* NEEDS_HELP.
C1_NeedsHelpAbortsJob ==
    \A i \in 1..Len(inputFiles) :
        NeedsHelpAt(i) =>
            /\ \A m \in 1..Len(calls) :
                   calls[m].prim \in MajorSteps => calls[m].item <= i
            /\ index <= i
            /\ Terminated =>
                   /\ pc = "returned"
                   /\ resultFile.status = "NEEDS_HELP"
                   /\ latestFile.status = "NEEDS_HELP"

C1_Witness ==
    /\ pc = "returned"
    /\ \E i \in 1..Len(inputFiles) : NeedsHelpAt(i) /\ i < Len(inputFiles)

\* C2: an exception other than NeedsHelpError raised by a primitive for work
\* item i gives exactly that item's Part Result the status FAILED (a Part
\* Result is FAILED if and only if its item raised such an exception), the
\* handler changes no Part Result already in the list, and the loop goes on
\* to work item i+1 when there is one.
C2_StateAfterException ==
    /\ \A k \in 1..Len(result.parts) :
          /\ result.parts[k].partId = inputFiles[k].partId
          /\ result.parts[k].status = "FAILED" <=> ExceptionAt(k)
    /\ \A i \in 1..Len(inputFiles) :
          (ExceptionAt(i) /\ Terminated) =>
              /\ Len(result.parts) >= i
              /\ i < Len(inputFiles) => index > i

C2_HandlerStep ==
    (pc = "except_exception" /\ pc' # pc) =>
        /\ result'.parts = result.parts
        /\ part_result'.partId = part_result.partId
        /\ part_result'.status = "FAILED"

C2_ExceptionFailsOnlyThatItem ==
    [](C2_StateAfterException) /\ [][C2_HandlerStep]_vars

C2_Witness ==
    /\ Terminated
    /\ Len(inputFiles) >= 2
    /\ ExceptionAt(1)
    /\ index >= 2
    /\ result.parts[1].status = "FAILED"

\* C3: every run of process_job ends with a Job Result written to the
\* per-job path and to the latest path, wherever the failure occurred.
C3_ResultAlwaysPersisted ==
    Terminated => (resultFile # NoResult /\ latestFile # NoResult)

\* C4: when the loop ends with no Part Result DONE, at least one FAILED and
\* none NEEDS_HELP, the Job Result status is FAILED.
C4_AllFailedIsFailed ==
    ( /\ pc = "returned"
      /\ ~HasStatus(result.parts, "DONE")
      /\ HasStatus(result.parts, "FAILED")
      /\ ~HasStatus(result.parts, "NEEDS_HELP") )
    => resultFile.status = "FAILED"

\* C5: a written Job Result that holds a Part Result of status NEEDS_HELP has
\* status NEEDS_HELP, whatever the statuses of the other Part Results.
C5_NeedsHelpOverrides ==
    /\ (resultFile # NoResult /\ HasStatus(resultFile.parts, "NEEDS_HELP"))
          => resultFile.status = "NEEDS_HELP"
    /\ (latestFile # NoResult /\ HasStatus(latestFile.parts, "NEEDS_HELP"))
          => latestFile.status = "NEEDS_HELP"

C5_Witness ==
    /\ resultFile # NoResult
    /\ Len(resultFile.parts) = 2
    /\ resultFile.parts[1].status = "FAILED"
    /\ resultFile.parts[2].status = "NEEDS_HELP"

\* C6: a written Job Result has status DONE if and only if every Part Result
\* in it has status DONE (none at all included) and connect did not raise
\* NeedsHelpError.
C6_DoneIffAllDone ==
    resultFile # NoResult =>
        ( resultFile.status = "DONE"
            <=> (AllDone(resultFile.parts) /\ ~ConnectRaisedNeedsHelp) )

C6_Witness ==
    /\ resultFile # NoResult
    /\ resultFile.status = "DONE"
    /\ Len(resultFile.parts) >= 1

\* C7: when the loop ends with at least one Part Result DONE, at least one
\* FAILED and none NEEDS_HELP, the Job Result status is PARTIAL, in whatever
\* order the DONE and FAILED items came.
C7_MixedIsPartial ==
    ( /\ pc = "returned"
      /\ HasStatus(result.parts, "DONE")
      /\ HasStatus(result.parts, "FAILED")
      /\ ~HasStatus(result.parts, "NEEDS_HELP") )
    => (resultFile.status = "PARTIAL" /\ latestFile.status = "PARTIAL")

C7_Witness ==
    /\ pc = "returned"
    /\ Len(result.parts) = 2
    /\ result.parts[1].status = "FAILED"
    /\ result.parts[2].status = "DONE"
    /\ resultFile.status = "PARTIAL"

\* C8: once the loop has run, the parts list holds exactly one Part Result
\* per work item that was started, in input order; the item in progress at an
\* early termination has its Part Result in the list too.
C8_OnePartPerStartedItem ==
    Terminated =>
        /\ Len(result.parts) = index
        /\ \A k \in 1..Len(result.parts) :
               result.parts[k].partId = inputFiles[k].partId

\* the call before call k is call `prim` of the same item and returned
After(k, prim) ==
    /\ k > 1
    /\ calls[k - 1].prim = prim
    /\ calls[k - 1].item = calls[k].item
    /\ calls[k - 1].outcome = "ok"

\* the primitive `prim` was called for item i (and returned, if ok_only)
Went(i, prim, ok_only) ==
    \E k \in 1..Len(calls) :
        /\ calls[k].prim = prim
        /\ calls[k].item = i
        /\ ok_only => calls[k].outcome = "ok"

\* open_file, set_material and export_geo of an item run in this order, each
\* started only after the one before returned for the same item
MajorStepsInOrder ==
    \A k \in 1..Len(calls) :
        /\ calls[k].prim = "CONNECT_TECZONE" => k = 1
        /\ calls[k].prim = "OPEN_FILE" =>
               (k > 1 /\ calls[k - 1].item < calls[k].item)
        /\ calls[k].prim = "SET_MATERIAL" => After(k, "OPEN_FILE")
        /\ calls[k].prim = "EXPORT_GEO" => After(k, "SET_MATERIAL")

\* a Part Result DONE in the list went through all four primitives
DoneWentThroughAll ==
    \A i \in 1..Len(result.parts) :
        result.parts[i].status = "DONE" =>
            /\ Went(i, "OPEN_FILE", TRUE)
            /\ Went(i, "SET_MATERIAL", TRUE)
            /\ Went(i, "EXPORT_GEO", TRUE)
            /\ Went(i, "CLOSE_FILE", FALSE)

\* C12 as stated: for each work item the primitives run strictly in the order
\* open_file, set_material, export_geo, close_active_file; a primitive is
\* started only after the preceding one returned successfully for the same
\* item, and an item whose Part Result is DONE went through every one of them.
C12_StrictOrderAsStated ==
    /\ MajorStepsInOrder
    /\ \A k \in 1..Len(calls) :
          calls[k].prim = "CLOSE_FILE" => After(k, "EXPORT_GEO")
    /\ DoneWentThroughAll

\* C12 as amended: open_file, set_material and export_geo run strictly in
\* this order, each started only after the preceding one returned
\* successfully for the same item; close_active_file is started once per item
\* whose open_file returned, after the last of the item's other steps
\* (successful or not) and before any primitive of a later item; an item whose
\* Part Result is DONE went through every one of the four.
C12_OrderWithCleanupClose ==
    /\ MajorStepsInOrder
    /\ \A k \in 1..Len(calls) :
          calls[k].prim = "CLOSE_FILE" =>
              /\ k > 1
              /\ calls[k - 1].item = calls[k].item
              /\ calls[k - 1].prim \in MajorSteps
              /\ Went(calls[k].item, "OPEN_FILE", TRUE)
    /\ Terminated =>
          \A i \in 1..Len(inputFiles) :
              Went(i, "OPEN_FILE", TRUE) => Went(i, "CLOSE_FILE", FALSE)
    /\ DoneWentThroughAll

C12_Witness ==
    /\ pc = "returned"
    /\ Len(result.parts) = 2
    /\ result.parts[1].status = "DONE"
    /\ \E k \in 2..Len(calls) :
          /\ calls[k].prim = "CLOSE_FILE"
          /\ calls[k].item = 2
          /\ calls[k - 1].prim = "SET_MATERIAL"
          /\ calls[k - 1].outcome = "needs_help"

ConnectReturned ==
    \E k \in 1..Len(calls) :
        calls[k].prim = "CONNECT_TECZONE" /\ calls[k].outcome = "ok"

EmptyJob == Len(inputFiles) = 0 /\ ~dryRun

\* C19 as stated: every job with zero work items and dryRun unset completes
\* with Job Result status DONE and an empty parts list (that a run ends with
\* a Job Result at all is C3).
C19_EmptyJobIsDone ==
    (EmptyJob /\ pc = "returned") =>
        resultFile = [status |-> "DONE", parts |-> <<>>]

\* C19 as amended: a job with zero work items and dryRun unset returns with
\* the Job Result [DONE, no parts] in both result files when connect
\* succeeded, and with [NEEDS_HELP, no parts] when connect raised
\* NeedsHelpError.
C19_EmptyJobFollowsConnect ==
    (EmptyJob /\ Terminated) =>
        /\ ConnectReturned =>
              /\ pc = "returned"
              /\ resultFile = [status |-> "DONE", parts |-> <<>>]
              /\ latestFile = resultFile
        /\ ConnectRaisedNeedsHelp =>
              /\ pc = "returned"
              /\ resultFile = [status |-> "NEEDS_HELP", parts |-> <<>>]
              /\ latestFile = resultFile

C19_Witness ==
    /\ EmptyJob
    /\ pc = "returned"
    /\ ConnectReturned
    /\ resultFile.status = "DONE"

(***************************************************************************)
(* Claims about pausing (checked under SpecPause)                          *)
(***************************************************************************)
\* C11: while the pause flag is true process_job starts none of connect,
\* open_file, set_material, export_geo, close_active_file, and the overlay
\* text it sends shows the paused state; when the flag turns false the next
\* primitive started is the step that was pending when the pause was
\* detected, for the same work item.
C11_HeldWhilePaused ==
    /\ \A k \in 1..Len(calls) : ~calls[k].paused
    /\ overlay_text.flag => overlay_text.state = "PAUSED"

C11_ResumeStep ==
    (Len(calls') > Len(calls) /\ overlay_text.state = "PAUSED") =>
        /\ calls'[Len(calls')].prim = overlay_text.current
        /\ calls'[Len(calls')].item = overlay_text.part

C11_PauseHoldsSteps ==
    [](C11_HeldWhilePaused) /\ [][C11_ResumeStep]_vars

(***************************************************************************)
(* Claims about run_loop (checked under SpecLoop)                          *)
(***************************************************************************)
Holding(w) == wpc[w] \in {"process", "release"}

\* C9: a job identifier that was claimed once is never claimed again, so
\* process_job runs at most once per job identifier, over all polling passes
\* of all workers.
C9_ClaimedAtMostOnce == \A j \in Jobs : runs[j] <= 1

\* C10: claim_job succeeds exactly when no .processing marker of the job
\* exists at its exclusive creation, and then leaves the marker in place; a
\* call that finds the marker fails and its worker skips the job; so of two
\* concurrent calls for one job at most one worker comes to hold the job.
C10_OneHolder ==
    \A w1, w2 \in Workers :
        (w1 # w2 /\ Holding(w1) /\ Holding(w2)) => wjob[w1] # wjob[w2]

C10_ClaimStep ==
    \A w \in Workers :
        (wpc[w] = "claim" /\ wpc'[w] # "claim") =>
            IF Processing(wjob[w]) \in markers
            THEN /\ ~wok'[w]
                 /\ wpc'[w] = "next"
                 /\ markers' = markers
                 /\ runs' = runs
            ELSE /\ wok'[w]
                 /\ wpc'[w] = "process"
                 /\ Processing(wjob[w]) \in markers'

C10_ConcurrentClaimExclusive ==
    [](C10_OneHolder) /\ [][C10_ClaimStep]_vars

C10_Witness ==
    \E w1, w2 \in Workers :
        /\ w1 # w2
        /\ wjob[w1] = wjob[w2]
        /\ wraced[w1] /\ wraced[w2]
        /\ wpc[w1] = "process" /\ wok[w1]
        /\ wpc[w2] = "next" /\ ~wok[w2]

(***************************************************************************)
(* export_geo: when it declares success                                    *)
(***************************************************************************)
\* export_geo returned for the item of the last observation, which is then
\* the observation of the poll at which it returned
ExportReturnedAtPoll ==
    /\ env.prim = "EXPORT_GEO"
    /\ \E k \in 1..Len(calls) :
          /\ calls[k].prim = "EXPORT_GEO"
          /\ calls[k].item = env.item
          /\ calls[k].outcome = "ok"

\* C13: export_geo returns success only at a poll where no unexpected dialog
\* is present, the save dialog is no longer present and the output file
\* exists with non-zero size; it never returns success while the save dialog
\* is still present.
C13_SuccessOnlyWhenSaveGone ==
    ExportReturnedAtPoll =>
        /\ ~env.obs.unexpected
        /\ ~env.obs.save_present
        /\ env.obs.file_ok

(***************************************************************************)
(* open_file: validation of the path                                       *)
(***************************************************************************)
\* the extension open_file accepts is missing from the path
BadExtension(path) == SplitExtLower(path) \notin AcceptedExtensions

\* the call of `prim` for item i ended as `outcome`
Ended(i, prim, outcome) ==
    \E k \in 1..Len(calls) :
        /\ calls[k].prim = prim
        /\ calls[k].item = i
        /\ calls[k].outcome = outcome

\* open_file was the last primitive to observe the environment, for a path
\* that does not exist or has no accepted extension
OpenFileOfBadPath ==
    /\ env.prim = "OPEN_FILE"
    /\ ~env.obs.exists \/ BadExtension(inputFiles[env.item].path)

\* C14: for a work item whose source path does not exist or whose extension
\* is not .stp or .step, open_file fails with NeedsHelp before any UI
\* interaction is attempted: no focus change, no keystroke and no dialog
\* search happen for that item.
C14_BadPathFailsBeforeUI ==
    \* open_file, whatever the environment would answer
    /\ \A path \in Paths : \A e \in OpenFileEnvs :
          (~PathExists(path, e) \/ BadExtension(path)) =>
              /\ open_file(path, e).outcome = "needs_help"
              /\ open_file(path, e).ui = {}
    \* the call process_job makes
    /\ OpenFileOfBadPath =>
          /\ Ended(env.item, "OPEN_FILE", "needs_help")
          /\ env.obs.ui = {}
    \* an item process_job rejects itself gets no primitive at all
    /\ \A k \in 1..Len(calls) :
          calls[k].item > 0 =>
              ~UnsupportedInputExtension(inputFiles[calls[k].item].path)

\* open_file was called for a path that does not exist, and the item's Part
\* Result is recorded
C14_Witness ==
    /\ env.prim = "OPEN_FILE"
    /\ ~env.obs.exists
    /\ Ended(env.item, "OPEN_FILE", "needs_help")
    /\ Len(result.parts) = env.item
    /\ result.parts[env.item].status = "NEEDS_HELP"

(***************************************************************************)
(* set_material: absent material, fallback, match                          *)
(***************************************************************************)
\* set_material was the last primitive to observe the environment, for the
\* current item
SetMaterialCalled ==
    /\ env.prim = "SET_MATERIAL"
    /\ env.item = index
    /\ part_result.partId = inputFiles[index].partId

\* a note of the current Part Result says the material was skipped
HasSkipNote ==
    \E k \in 1..Len(part_result.notes) :
        part_result.notes[k].text = "material not set: "

\* C15: when the material name of a work item is absent, set_material fails
\* with NeedsHelp if the workflow configuration marks material mandatory
\* (materialRequired true), and otherwise succeeds with a note saying the
\* material was skipped, so the item proceeds to export.
C15_AbsentMaterialFollowsPolicy ==
    (SetMaterialCalled /\ part_result.materialFromXometry = NoMaterial) =>
        IF workflow.materialRequired
        THEN Ended(index, "SET_MATERIAL", "needs_help")
        ELSE /\ Ended(index, "SET_MATERIAL", "ok")
             /\ HasSkipNote
             /\ pc = "export_geo" \/ Went(index, "EXPORT_GEO", FALSE)

\* the list set_material read for the current item has no label that
\* contains the requested material, whatever the case of the letters
NoLabelContains(material) ==
    /\ seen_items # <<>>
    /\ \A k \in 1..Len(seen_items) :
          ~Contains(ToLower(seen_items[k]), ToLower(material))

\* C16: when the requested material name is a case-insensitive substring of
\* no entry of the selection list, set_material does not fail for that
\* reason (it fails only if a click raises or an unexpected dialog shows
\* after OK): it selects the first list entry, returns its label as the
\* applied material, and returns a non-empty note that contains the
\* originally requested name.
C16_FallbackToFirstEntry ==
    (SetMaterialCalled /\ NoLabelContains(part_result.materialFromXometry)) =>
        /\ Ended(index, "SET_MATERIAL", "ok")
               <=> (env.obs.click_ok /\ ~env.obs.unexpected)
        /\ Ended(index, "SET_MATERIAL", "ok") =>
              /\ part_result.materialUsedInTecZone = seen_items[1]
              /\ part_result.notes # <<>>
              /\ part_result.notes[1] =
                     [text |-> "material fallback to: ; requested: ",
                      used |-> seen_items[1],
                      requested |-> part_result.materialFromXometry]
              /\ part_result.materialFromXometry # NoMaterial

\* set_material fell back to the first entry of a list without a match and
\* returned
C16_Witness ==
    /\ SetMaterialCalled
    /\ NoLabelContains(part_result.materialFromXometry)
    /\ Ended(index, "SET_MATERIAL", "ok")
    /\ part_result.materialUsedInTecZone = <<"A", "L", "U">>
    /\ pc = "export_geo"

(***************************************************************************)
(* export_geo: the deadline of the completion loop                         *)
(***************************************************************************)
\* export_geo gave up at its deadline, and the last poll before it found the
\* save dialog closed and the output file missing or empty
TimedOutWithoutFile ==
    /\ env.prim = "EXPORT_GEO"
    /\ env.timeout
    /\ "save_present" \in DOMAIN env.obs
    /\ ~env.obs.overwrite
    /\ ~env.obs.save_present
    /\ ~env.obs.file_ok

\* the exception of a primitive has been handled by process_job
Handled == pc \notin {"export_poll", "except_needs_help", "except_exception"}

\* C17: when the save dialog closes but the output file is still absent or
\* empty when the export-completion timeout elapses, export_geo fails with
\* NeedsHelp whose text cites "file missing or empty", the item's Part Result
\* has status NEEDS_HELP with geoPath null, and no remaining item is
\* processed.
C17_ExportTimeoutNeedsHelp ==
    TimedOutWithoutFile =>
        /\ Ended(env.item, "EXPORT_GEO", "needs_help")
        /\ ~Handled =>
              /\ pc = "except_needs_help"
              /\ exc.text = "Export GEO failed: file missing or empty after timeout"
        /\ Handled =>
              /\ Len(result.parts) = env.item
              /\ result.parts[env.item].status = "NEEDS_HELP"
              /\ result.parts[env.item].geoPath = NoGeoPath
              /\ \E k \in 1..Len(result.parts[env.item].notes) :
                    result.parts[env.item].notes[k].text =
                        "Export GEO failed: file missing or empty after timeout"
        /\ index = env.item
        /\ \A k \in 1..Len(calls) : calls[k].item <= env.item
        /\ pc = "returned" =>
              /\ resultFile.status = "NEEDS_HELP"
              /\ Len(resultFile.parts) = env.item

\* the export of the first of two items timed out with the save dialog
\* closed and no file, and process_job has returned
C17_Witness ==
    /\ TimedOutWithoutFile
    /\ env.item = 1
    /\ Len(inputFiles) = 2
    /\ pc = "returned"
    /\ result.parts[1].status = "NEEDS_HELP"

(***************************************************************************)
(* connect: the main window does not appear                                *)
(***************************************************************************)
\* connect waited for the main window to its deadline without finding it
MainWindowNotFound ==
    /\ env.prim = "CONNECT_TECZONE"
    /\ env.obs.flux_running \/ env.obs.launch_ok
    /\ env.obs.enum_ok
    /\ ~env.obs.win

\* C18: when the target application's main window does not appear within the
\* connect timeout, process_job returns status NEEDS_HELP with zero Part
\* Results, writes a NeedsHelp diagnostic file naming the connect step and
\* the candidate window titles, and starts no work-item primitive.
C18_NoMainWindowNeedsHelp ==
    MainWindowNotFound =>
        /\ pc \in {"connect_needs_help", "outer_finally", "returned"}
        /\ calls = <<Call("CONNECT_TECZONE", 0, "needs_help")>>
        /\ result.parts = <<>>
        /\ pc # "connect_needs_help" =>
              /\ needsHelpFile.step = "CONNECT_TECZONE"
              /\ needsHelpFile.found.text =
                     "main window not found; candidate windows: "
              /\ needsHelpFile.found.candidates = env.obs.titles
              /\ resultFile = [status |-> "NEEDS_HELP", parts |-> <<>>]
              /\ latestFile = resultFile

\* process_job has returned from a job with an item after connect found
\* other windows but not the main window
C18_Witness ==
    /\ MainWindowNotFound
    /\ env.obs.titles # <<>>
    /\ Len(inputFiles) > 0
    /\ pc = "returned"
    /\ needsHelpFile.step = "CONNECT_TECZONE"

(***************************************************************************)
(* scenario A: one item, the material matched                              *)
(***************************************************************************)
\* the labels of the list set_material read that contain the requested
\* material, whatever the case of the letters
Matching(material) ==
    {k \in 1..Len(seen_items) :
        Contains(ToLower(seen_items[k]), ToLower(material))}

\* a job of one item with a catalog material that a label of the list
\* contains, of which every primitive succeeded
ScenarioA ==
    /\ Len(inputFiles) = 1
    /\ inputFiles[1].partId \in DOMAIN catalog
    /\ Matching(catalog[inputFiles[1].partId]) # {}
    /\ Ended(0, "CONNECT_TECZONE", "ok")
    /\ \A prim \in {"OPEN_FILE", "SET_MATERIAL", "EXPORT_GEO", "CLOSE_FILE"} :
          Ended(1, prim, "ok")

\* what scenario A leaves in the persisted Job Result, but for the geoPath
ScenarioAResult ==
    /\ resultFile.status = "DONE"
    /\ Len(resultFile.parts) = 1
    /\ resultFile.parts[1].status = "DONE"
    /\ \E k \in Matching(catalog[inputFiles[1].partId]) :
          /\ resultFile.parts[1].materialUsedInTecZone = seen_items[k]
          /\ \A j \in Matching(catalog[inputFiles[1].partId]) : k <= j
    /\ resultFile.parts[1].notes = <<>>

\* <exportDir>/<partName>.geo
DefaultGeoPath(item) == <<"exportDir", PartName(item), ".geo">>

\* C20 as stated: for a job with one work item whose catalog material is a
\* case-insensitive substring of a selection-list entry and whose primitives
\* all succeed, the Part Result has status DONE, materialUsedInTecZone equal
\* to the label of the matched list entry, geoPath equal to
\* <exportDir>/<partName>.geo and empty notes, and the Job Result status is
\* DONE.
C20_ScenarioAAsStated ==
    (ScenarioA /\ pc = "returned") =>
        /\ ScenarioAResult
        /\ resultFile.parts[1].geoPath = DefaultGeoPath(inputFiles[1])

\* C20 as amended: for a job with one work item, the default export name
\* template, a catalog material that is a case-insensitive substring of a
\* selection-list entry and primitives that all succeed, the Part Result has
\* status DONE, materialUsedInTecZone equal to the label of the first
\* matching list entry, geoPath equal to <exportDir>/<partName>.geo and empty
\* notes, and the Job Result status is DONE.
C20_ScenarioADefaultTemplate ==
    (ScenarioA /\ pc = "returned" /\ exportNameTemplate = DefaultTemplate) =>
        /\ ScenarioAResult
        /\ resultFile.parts[1].geoPath = DefaultGeoPath(inputFiles[1])

\* scenario A has run to its end on a list whose second label is the match
C20_Witness ==
    /\ ScenarioA
    /\ pc = "returned"
    /\ exportNameTemplate = DefaultTemplate
    /\ Matching(catalog[inputFiles[1].partId]) = {2}
    /\ resultFile.parts[1].materialUsedInTecZone =
           <<"I", "N", "O", "X", " ", "3", "0", "4">>

(***************************************************************************)
(* C28: once a Part Result is appended to the Job Result's parts, none of  *)
(* its fields changes for the rest of process_job: every step leaves every *)
(* entry of parts as it was and only adds entries behind it.               *)
(***************************************************************************)
PartsKept ==
    \A i \in 1..Len(result.parts) :
        /\ i <= Len(result'.parts)
        /\ result'.parts[i] = result.parts[i]

C28_AppendedPartsFrozen == [][PartsKept]_vars

\* two Part Results appended, the first by the generic handler, the second
\* by the NeedsHelp handler, and process_job has returned with both
C28_Witness ==
    /\ pc = "returned"
    /\ Len(result.parts) = 2
    /\ result.parts[1].status = "FAILED"
    /\ result.parts[2].status = "NEEDS_HELP"
    /\ resultFile = result

(***************************************************************************)
(* C24: whenever process_job aborts with NeedsHelp, at connect or at a     *)
(* work item, the report (active window title, step name, failure reason,  *)
(* visible window titles) and a windows.json with the same titles have     *)
(* been written, and they were written before the Job Result.              *)
(***************************************************************************)
\* process_job has ended on a NeedsHelpError: one its handlers turned into
\* the job status, or the one of worker.py:475 that it raised itself while
\* starting item `index`
NeedsHelpAbort ==
    \/ pc = "returned" /\ overall_status = "NEEDS_HELP"
    \/ /\ pc = "raised"
       /\ index > 0
       /\ UnsupportedInputExtension(inputFiles[index].path)
       /\ Len(result.parts) < index

ReportWritten ==
    /\ needsHelpFile # NoNeedsHelp
    /\ needsHelpFile.step # ""
    /\ needsHelpFile.found # NoExc
    /\ needsHelpFile.active \in ActiveTitles(needsHelpFile.titles)
    /\ needsHelpFile.windows_json = needsHelpFile.titles

C24_NeedsHelpAbortWritesReport == NeedsHelpAbort => ReportWritten

\* the report is never written once a Job Result is on disk
C24_ReportBeforeResult ==
    [][needsHelpFile' # needsHelpFile => resultFile = NoResult]_vars

(***************************************************************************)
(* The window searches: TecZoneSession._find_main_window of                *)
(* teczone_actions.py and the dialog helpers of ui_utils.py, applied to    *)
(* what the desktop shows (SpecWindows)                                    *)
(***************************************************************************)
\* the processes a window can belong to: the target application (Flux.exe),
\* another program, or "none" when element_info.process_id cannot be read
WindowPids == {"flux", "other", "none"}

\* titles of top-level windows
WindowTitles == {"TecZone Bend", "teczone notes", "Flux", "Notepad"}

\* re.search(pattern, title, flags=re.IGNORECASE) on these patterns and titles
TitleMatches(pattern, title) ==
    CASE pattern = "Bend" -> title = "TecZone Bend"
      [] pattern = ".*Flux.*" -> title = "Flux"
      [] pattern = ".*TecZone.*" -> title \in {"TecZone Bend", "teczone notes"}
      [] OTHER -> FALSE

\* teczone_actions.py:111-130: the override first, then the generic patterns
title_patterns(custom) ==
    (IF custom # "" THEN <<custom>> ELSE <<>>) \o <<".*Flux.*", ".*TecZone.*">>

\* teczone_actions.py:149-175: the process ids tasklist lists for Flux.exe;
\* empty when none is listed and when tasklist could not be run or read
FluxPidSets == { {}, {"flux"} }

\* teczone_actions.py:138: if flux_pids and pid not in flux_pids: continue
SkippedAsForeign(pids, pid) == pids # {} /\ pid \notin pids

\* teczone_actions.py:132-147: the first window that passes the process
\* filter and whose title matches; 0 for None
find_main_window(pattern, windows, pids) ==
    LET hits == {k \in 1..Len(windows) :
                    /\ ~SkippedAsForeign(pids, windows[k].pid)
                    /\ TitleMatches(pattern, windows[k].title)}
    IN IF hits = {} THEN 0 ELSE CHOOSE k \in hits : \A j \in hits : k <= j

\* teczone_actions.py:180-184: one _find_main_window call of a poll of
\* _wait_for_main_window; each call reads the process list anew
FindMainWindow ==
    /\ desktop # <<>>
    /\ main_window = 0
    /\ pattern_ix < Len(title_patterns(teczone_title_re))
    /\ pattern_ix' = pattern_ix + 1
    /\ \E pids \in FluxPidSets :
          /\ flux_pids' = pids
          /\ main_window' = find_main_window(
                 title_patterns(teczone_title_re)[pattern_ix + 1], desktop, pids)
    /\ UNCHANGED <<teczone_title_re, desktop, dlg, verdict>>
    /\ UNCHANGED <<procVars, loopVars, waitVars, sessionInputs, mergeVars, sessionVars>>

\* ---- the dialog helpers of ui_utils.py ----
\* a control of a window: [control_type, auto_id, title]
Ctl(type, id, title) == [control_type |-> type, auto_id |-> id, title |-> title]

\* the descendants a window can have
Controls ==
    { Ctl("Edit", "1148", ""), Ctl("Edit", "", ""),
      Ctl("Text", "", "File name:"), Ctl("Text", "", "The file cannot be opened"),
      Ctl("ComboBox", "", "File name:"),
      Ctl("Button", "1", "Open"), Ctl("Button", "", "Open"),
      Ctl("Button", "", "Save"), Ctl("Button", "2", "Cancel") }

DialogTitles == {"", "Open", "Save As", "Confirm Save As", "Error", "Select file"}

Dialogs ==
    [control_type : {"Window", "Pane"}, class_name : {"#32770", "Afx"},
     title : DialogTitles, pid : {"flux", "other"}, controls : SUBSET Controls]

\* ui_utils.py:6-8: re.search of each pattern on the titles above
OPEN_TITLE_RE(title) == title = "Open"
SAVE_TITLE_RE(title) == title \in {"Save As", "Confirm Save As"}
FILE_NAME_LABEL_RE(title) == title = "File name:"

\* ui_utils.py:9-21 and 412: any(k in whole for k in the keywords), on the
\* lower-cased text ("confirm", "error", "cannot")
UNEXPECTED_DIALOG_KEYWORDS(text) ==
    text \in {"Confirm Save As", "Error", "The file cannot be opened"}

\* ui_utils.py:163: re.search(r"(?i)open|save|export|ok", title)
PrimaryTitle(title) == title \in {"Open", "Save"}

\* ui_utils.py:198: re.search(r"(?i)^save$|^export$|^ok$", title)
StrictPrimaryTitle(title) == title = "Save"

\* ui_utils.py:140: find_child(dlg, auto_id="1148") is not None
HasAutoId1148(d) == \E c \in d.controls : c.auto_id = "1148"

\* ui_utils.py:140-159: the three ways a file-name field is recognised
has_file_name(d) ==
    \/ HasAutoId1148(d)
    \/ /\ \E c \in d.controls :
             c.control_type = "Text" /\ FILE_NAME_LABEL_RE(c.title)
       /\ \E c \in d.controls : c.control_type = "Edit"
    \/ \E c \in d.controls :
          c.control_type = "ComboBox" /\ c.title # "" /\ FILE_NAME_LABEL_RE(c.title)

\* ui_utils.py:161-163
has_primary(d) ==
    \/ \E c \in d.controls : c.control_type = "Button" /\ c.auto_id = "1"
    \/ \E c \in d.controls : c.control_type = "Button" /\ PrimaryTitle(c.title)

\* ui_utils.py:164
has_cancel(d) == \E c \in d.controls : c.control_type = "Button" /\ c.auto_id = "2"

\* mutant: a window counts as a file dialog by being a window
is_common_file_dialog_AnyWindow(d) == d.control_type = "Window"

\* ui_utils.py:128-170
is_common_file_dialog(d) ==
    /\ d.control_type = "Window"
    /\ IF d.class_name = "#32770"
       THEN has_file_name(d) /\ has_primary(d)
       ELSE has_file_name(d) /\ has_primary(d) /\ has_cancel(d)

\* ui_utils.py:173-183: find_open_dialog returns d when d is among its roots
find_open_dialog(d) ==
    /\ is_common_file_dialog(d)
    /\ d.title # ""
    /\ OPEN_TITLE_RE(d.title)

\* ui_utils.py:186-202: find_save_dialog returns d when d is among its roots
find_save_dialog(d) ==
    /\ is_common_file_dialog(d)
    /\ \/ d.title # "" /\ SAVE_TITLE_RE(d.title)
       \/ \E c \in d.controls : c.control_type = "Button" /\ c.auto_id = "1"
       \/ \E c \in d.controls :
             c.control_type = "Button" /\ StrictPrimaryTitle(c.title)

\* ui_utils.py:380-414: find_unexpected_dialog(process_id) reports d;
\* process_id "none" stands for None
find_unexpected_dialog(d, process_id) ==
    /\ process_id = "none" \/ d.pid = process_id
    /\ d.title # ""
    /\ ~(HasAutoId1148(d) /\ (OPEN_TITLE_RE(d.title) \/ SAVE_TITLE_RE(d.title)))
    /\ \/ UNEXPECTED_DIALOG_KEYWORDS(d.title)
       \/ \E c \in d.controls :
             c.control_type = "Text" /\ UNEXPECTED_DIALOG_KEYWORDS(c.title)

\* one poll of a primitive's waiting loop looks at the window with every
\* helper (teczone_actions.py:317-324, 378-381)
Classify ==
    /\ dlg # NoDlg
    /\ verdict = NoVerdict
    /\ \E p \in {"none", "flux"} :
          verdict' = [process_id |-> p,
                      open |-> find_open_dialog(dlg),
                      save |-> find_save_dialog(dlg),
                      unexpected |-> find_unexpected_dialog(dlg, p)]
    /\ UNCHANGED <<teczone_title_re, desktop, flux_pids, pattern_ix,
                   main_window, dlg>>
    /\ UNCHANGED <<procVars, loopVars, waitVars, sessionInputs, mergeVars, sessionVars>>

\* no job in progress; either a desktop for connect or a window for the
\* dialog helpers
InitWindows ==
    /\ InitJobIdle
    /\ InitLoopIdle
    /\ InitMergeIdle
    /\ flux_pids = {}
    /\ pattern_ix = 0
    /\ main_window = 0
    /\ verdict = NoVerdict
    /\ InitWaitIdle
    /\ InitSessionIdle
    /\ \/ /\ teczone_title_re \in {"", "Bend"}
          /\ \E n \in 1..MaxWindows :
                desktop \in [1..n -> [pid : WindowPids, title : WindowTitles]]
          /\ dlg = NoDlg
       \/ /\ teczone_title_re = ""
          /\ desktop = <<>>
          /\ dlg \in Dialogs

NextWindows ==
    \/ FindMainWindow
    \/ Classify

SpecWindows == InitWindows /\ [][NextWindows]_vars

(***************************************************************************)
(* C25: the window connect adopts as main window is owned by the target    *)
(* application's process; a window of another process is never selected,   *)
(* even when its title matches a title pattern.                            *)
(***************************************************************************)
C25_MainWindowOwnedByTarget ==
    main_window # 0 => desktop[main_window].pid = "flux"

(***************************************************************************)
(* C26: find_unexpected_dialog never reports a window that                 *)
(* find_open_dialog or find_save_dialog classifies as a file-chooser.      *)
(***************************************************************************)
Classified == dlg # NoDlg /\ verdict # NoVerdict

C26_FileChooserNeverUnexpected ==
    Classified => ~(verdict.unexpected /\ (verdict.open \/ verdict.save))

(***************************************************************************)
(* C27: a window is classified as a file-chooser only if it has both a     *)
(* file-name entry field and a primary action button; a title matching the *)
(* open/save pattern does not make up for a missing field or button.       *)
(***************************************************************************)
C27_StructureRequired ==
    Classified /\ (verdict.open \/ verdict.save)
        => has_file_name(dlg) /\ has_primary(dlg)

\* a window titled "Open" with a primary button but no file-name field has
\* been looked at, and one with field and button has been classified
C27_Witness ==
    /\ Classified
    /\ dlg.title = "Open"
    /\ dlg.control_type = "Window"
    /\ has_primary(dlg)
    /\ ~has_file_name(dlg)
    /\ ~verdict.open /\ ~verdict.save

(***************************************************************************)
(* The primitives of teczone_actions.py followed through their waits       *)
(* (SpecWaits): connect, open_file, set_material and export_geo as stages; *)
(* a stage is either straight-line UI work, which succeeds or fails, or a  *)
(* waiting loop `while time.time() < deadline: ... time.sleep(...)`.       *)
(* Every single UI call returns or raises; what the application shows at   *)
(* each poll is arbitrary.                                                 *)
(***************************************************************************)
Primitives == {"connect", "open_file", "set_material", "export_geo"}

\* the waiting loops: teczone_actions.py:180-185 (main window), 317-324 and
\* 339-345 with ui_utils.py:310-317 (open dialog), 377-383 (open dialog
\* closed), 501-508 (material dialog), 566-571 (bend mode), 611-618 with
\* ui_utils.py:344-377 (menu items), 634-639 with ui_utils.py:320-327 (save
\* dialog), 696-711 (overwrite prompt), 726-754 (export completion)
LoopStages ==
    {"c_wait_main", "o_wait_fast", "o_wait_slow", "o_wait_closed",
     "m_wait_dialog", "e_bend", "e_menu_item_1", "e_menu_item_2",
     "e_wait_save", "e_overwrite", "e_wait_export"}

\* the straight-line stages between the loops
StraightStages ==
    {"c_start", "c_wrap", "o_validate", "o_shortcut", "o_menu", "o_fill",
     "m_start", "m_menu", "m_select", "e_start", "e_menu", "e_type"}

\* the first stage of each primitive (teczone_actions.py:259, 302, 421, 620)
FirstStage(p) ==
    CASE p = "connect" -> "c_start"
      [] p = "open_file" -> "o_validate"
      [] p = "set_material" -> "m_start"
      [] p = "export_geo" -> "e_start"

\* what a stage leads to: another stage, or the end of the primitive
Goto(stage) == [to |-> stage, end |-> Result("", NoExc)]
Return == [to |-> "", end |-> Result("ok", NoExc)]
RaiseNeedsHelp(msg) == [to |-> "", end |-> Result("needs_help", msg)]
RaiseException == [to |-> "", end |-> Result("exception", Msg("Exception"))]

\* ui_utils.py:205-217: the searched criteria and the first 20 titles
debug_open_dialog_search(titles) ==
    [searched |-> "open dialog by title~OPEN + file_name_edit + open_button",
     found_windows |-> SubSeq(titles, 1, IF Len(titles) < 20 THEN Len(titles) ELSE 20)]

\* teczone_actions.py:333-338, 346-351, 385-389: the message of a
\* NeedsHelpError that carries the dump
DiagMsg(text, titles) ==
    [text |-> text,
     searched |-> debug_open_dialog_search(titles).searched,
     found_windows |-> debug_open_dialog_search(titles).found_windows]

\* teczone_actions.py:429-433 inside a stage of set_material
SkipOrFail(wf, message) ==
    IF wf.materialRequired THEN RaiseNeedsHelp(Msg(message))
    ELSE [to |-> "", end |-> Result("ok", Msg(message))]

\* the straight-line stages: ok says whether the stage's UI work succeeded
OnStraight(stage, ok, wf, titles) ==
    CASE stage = "c_start" ->     \* teczone_actions.py:260-276
            IF ok THEN Goto("c_wait_main")
            ELSE RaiseNeedsHelp(Msg("Flux.exe not running; could not launch"))
      [] stage = "c_wrap" ->      \* 293-299
            IF ok THEN Return
            ELSE RaiseNeedsHelp(Msg("TecZone main window wrapper failed"))
      [] stage = "o_validate" ->  \* 303-307
            IF ok THEN Goto("o_shortcut")
            ELSE RaiseNeedsHelp(Msg("Input file not found"))
      [] stage = "o_shortcut" ->  \* 310-315
            IF ok THEN Goto("o_wait_fast") ELSE RaiseException
      [] stage = "o_menu" ->      \* 326-338
            IF ok THEN Goto("o_wait_slow")
            ELSE RaiseNeedsHelp(DiagMsg(
                     "Open dialog not found and menu fallback failed", titles))
      [] stage = "o_fill" ->      \* 353-373
            IF ok THEN Goto("o_wait_closed")
            ELSE RaiseNeedsHelp(Msg("Open dialog interaction failed"))
      [] stage = "m_start" ->     \* 425
            IF ok THEN Goto("m_menu") ELSE RaiseException
      [] stage = "m_menu" ->      \* 438-497
            IF ok THEN Goto("m_wait_dialog")
            ELSE SkipOrFail(wf, "material menu item not found")
      [] stage = "m_select" ->    \* 513-541
            IF ok THEN Return
            ELSE SkipOrFail(wf, "material list items not found")
      [] stage = "e_start" ->     \* 622-623, 554-561: focus, the bend hotkey
            IF ~ok THEN RaiseException
            ELSE IF wf.useEnterBend THEN Goto("e_bend") ELSE Goto("e_menu")
      [] stage = "e_menu" ->      \* 580-609: menu_select or the keys, else UIA
            IF ok THEN Goto("e_wait_save") ELSE Goto("e_menu_item_1")
      [] stage = "e_type" ->      \* 646-693
            IF ok THEN Goto("e_overwrite")
            ELSE RaiseNeedsHelp(Msg("Save As interaction failed"))

\* what ends a loop when the awaited thing is observed
OnHit(stage) ==
    CASE stage = "c_wait_main" -> Goto("c_wrap")          \* 183-184
      [] stage = "o_wait_fast" -> Goto("o_fill")          \* 319
      [] stage = "o_wait_slow" -> Goto("o_fill")          \* 340
      [] stage = "o_wait_closed" -> Return                \* 381-382
      [] stage = "m_wait_dialog" -> Goto("m_select")      \* 504-505
      [] stage = "e_bend" -> Goto("e_menu")               \* 570-571
      [] stage = "e_menu_item_1" -> Goto("e_menu_item_2") \* 611
      [] stage = "e_menu_item_2" -> Goto("e_wait_save")   \* 615
      [] stage = "e_wait_save" -> Goto("e_type")          \* 634-639
      [] stage = "e_overwrite" -> Goto("e_wait_export")   \* 711
      [] stage = "e_wait_export" -> Return                \* 744-753

\* the raise inside the body of a loop, for the loops that have one
OnAbort(stage) ==
    CASE stage = "o_wait_closed" ->                       \* 378-380
            RaiseNeedsHelp(Msg("Unexpected dialog while opening file"))
      [] stage = "e_bend" ->                              \* 567-569
            RaiseNeedsHelp(Msg("Unexpected dialog while entering bend mode"))
      [] stage = "e_overwrite" ->                         \* 707-708, 712-720
            RaiseNeedsHelp(Msg("Save As interaction failed"))
      [] stage = "e_wait_export" ->                       \* 731-742
            RaiseNeedsHelp(Msg("Unexpected dialog during export"))

Aborting == {"o_wait_closed", "e_bend", "e_overwrite", "e_wait_export"}

\* mutant: when the fast wait runs out open_file gives up at once
OnDeadline_NoFallback(stage, wf, titles) ==
    IF stage = "o_wait_fast"
    THEN RaiseNeedsHelp(DiagMsg("Open dialog not found", titles))
    ELSE RaiseNeedsHelp(Msg("timeout"))

\* what follows a loop whose deadline has passed
OnDeadline(stage, wf, titles) ==
    CASE stage = "c_wait_main" ->                         \* 186, 279-291
            RaiseNeedsHelp(Msg("main window not found"))
      [] stage = "o_wait_fast" -> Goto("o_menu")          \* 325-326
      [] stage = "o_wait_slow" ->                         \* 346-351
            RaiseNeedsHelp(DiagMsg("Open dialog not found", titles))
      [] stage = "o_wait_closed" ->                       \* 385-389
            RaiseNeedsHelp(DiagMsg(
                "Open dialog did not close within 90 seconds", titles))
      [] stage = "m_wait_dialog" ->                       \* 510-511
            SkipOrFail(wf, "material selection dialog not found")
      [] stage = "e_bend" -> Goto("e_menu")               \* 566, 625
      [] stage = "e_menu_item_1" ->                       \* 611-614
            RaiseNeedsHelp(Msg("Export menu item not found via fallback"))
      [] stage = "e_menu_item_2" ->                       \* 615-618
            RaiseNeedsHelp(Msg("Export target item not found via fallback"))
      [] stage = "e_wait_save" ->                         \* 642-645
            RaiseNeedsHelp(Msg("Save As dialog not found"))
      [] stage = "e_overwrite" -> Goto("e_wait_export")   \* 696-697, 725
      [] stage = "e_wait_export" ->                       \* 756-760
            RaiseNeedsHelp(Msg("Export GEO failed: file missing or empty after timeout"))

\* what one poll can observe: hit, the awaited thing is there (the window,
\* the dialog, the dialog gone, the exported file); abort, what makes the
\* body raise (an unexpected dialog, an overwrite prompt that cannot be
\* confirmed). A loop without a raise in its body reads no abort; the bend
\* loop returns after its first sleep whenever it did not raise.
PollObs(stage) ==
    { o \in [hit : BOOLEAN, abort : BOOLEAN] :
        /\ o.abort => stage \in Aborting
        /\ stage = "e_bend" => o.hit }

\* mutant: the loop looks for the awaited thing before it looks for trouble
PollStep_HitFirst(stage, o) ==
    IF o.hit THEN OnHit(stage)
    ELSE IF o.abort THEN OnAbort(stage)
    ELSE Goto(stage)

\* one iteration of a loop body: the raise comes first (teczone_actions.py:
\* 378-380 before 381, 567-569 before 570, 727-742 before 744), then the
\* exit, else sleep and go round
PollStep(stage, o) ==
    IF o.abort THEN OnAbort(stage)
    ELSE IF o.hit THEN OnHit(stage)
    ELSE Goto(stage)

\* mutant: while True
MayContinue_Forever(stage, n) == TRUE

\* `while time.time() < deadline`: every iteration sleeps, so no more than
\* MaxPolls iterations begin before the deadline of any loop
MayContinue(stage, n) == n < MaxPolls

Running == tz_prim # "" /\ tz_end.outcome = ""

\* a stage leads to nxt; ev is what the trace records for it
Advance(nxt, ev) ==
    /\ tz_end' = nxt.end
    /\ tz_pc' = nxt.to
    /\ tz_trace' = tz_trace \o ev \o (IF nxt.to # "" /\ nxt.to # tz_pc
                                     THEN <<nxt.to>> ELSE <<>>)
    /\ tz_polls' = IF nxt.to = tz_pc THEN (tz_polls + 1) % (MaxPolls + 1) ELSE 0

WaitFrame ==
    UNCHANGED <<inputFiles, dryRun, xometryJson, catalog, hotkey_enabled,
                workflow, exportNameTemplate, pc, xometry_map, overall_status,
                result, index, part_result, step, opened_document, after,
                cleaned, pauseVars, overlay_text, resultFile, latestFile,
                needsHelpFile, primVars, calls, loopVars, winVars,
                sessionInputs, mergeVars, sessionVars>>

\* process_job calls a primitive (worker.py:406, 510, 520, 531)
CallPrimitive ==
    /\ tz_prim = ""
    /\ \E p \in Primitives :
          /\ tz_prim' = p
          /\ tz_pc' = FirstStage(p)
          /\ tz_trace' = <<FirstStage(p)>>
    /\ UNCHANGED <<tz_polls, tz_obs, tz_end>>
    /\ WaitFrame

\* a straight-line stage runs
Straight ==
    /\ Running
    /\ tz_pc \in StraightStages
    /\ \E ok \in BOOLEAN : \E titles \in WindowLists :
          /\ titles # <<>> => (~ok /\ tz_pc = "o_menu")
          /\ tz_obs' = [hit |-> ok, abort |-> FALSE, titles |-> titles]
          /\ Advance(OnStraight(tz_pc, ok, workflow, titles), <<>>)
    /\ UNCHANGED tz_prim
    /\ WaitFrame

\* one iteration of the waiting loop in progress
Poll ==
    /\ Running
    /\ tz_pc \in LoopStages
    /\ MayContinue(tz_pc, tz_polls)
    /\ \E o \in PollObs(tz_pc) :
          /\ tz_obs' = o
          /\ Advance(PollStep(tz_pc, o), <<>>)
    /\ UNCHANGED tz_prim
    /\ WaitFrame

\* the loop condition is evaluated after the deadline
Deadline ==
    /\ Running
    /\ tz_pc \in LoopStages
    /\ \E titles \in WindowLists :
          /\ titles # <<>> => tz_pc \in {"o_wait_slow", "o_wait_closed"}
          /\ tz_obs' = [hit |-> FALSE, abort |-> FALSE, titles |-> titles]
          /\ Advance(OnDeadline(tz_pc, workflow, titles), <<"deadline">>)
    /\ UNCHANGED tz_prim
    /\ WaitFrame

\* no job in progress; the session's workflow configuration is any
InitWaits ==
    /\ workflow \in [materialRequired : BOOLEAN, useEnterBend : BOOLEAN]
    /\ InitJobIdleLocals
    /\ InitLoopIdle
    /\ InitWinIdle
    /\ InitWaitIdle
    /\ InitSessionIdle
    /\ InitMergeIdle

NextWaits ==
    \/ CallPrimitive
    \/ Straight
    \/ Poll
    \/ Deadline

SpecWaits == InitWaits /\ [][NextWaits]_vars

\* the worker thread that runs the primitive is scheduled again and again
SpecWaitsFair == SpecWaits /\ WF_vars(NextWaits)

(***************************************************************************)
(* C21: every wait of connect, open_file, set_material and export_geo is a *)
(* polling loop bounded by a deadline: whatever the application shows at   *)
(* each poll, a primitive that was called eventually returns or raises.    *)
(***************************************************************************)
PrimitiveEnded == tz_prim # "" /\ tz_end.outcome # ""

C21_PrimitivesTerminate == (tz_prim # "") ~> PrimitiveEnded

\* export_geo sat through every loop on its way: the menu items, the save
\* dialog and the overwrite prompt were waited for, and the completion loop
\* ran into its deadline after MaxPolls fruitless polls
C21_Witness ==
    /\ tz_prim = "export_geo"
    /\ PrimitiveEnded
    /\ tz_polls = 0
    /\ Len(tz_trace) >= 2
    /\ tz_trace[Len(tz_trace)] = "deadline"
    /\ tz_trace[Len(tz_trace) - 1] = "e_wait_export"
    /\ \E k \in 1..Len(tz_trace) : tz_trace[k] = "e_menu_item_2"

(***************************************************************************)
(* C29: after pressing the primary action open_file returns only at a poll *)
(* that observes the dialog closed and no unexpected dialog; a poll that    *)
(* observes an unexpected dialog raises NeedsHelp even when the dialog has *)
(* closed; the deadline with the dialog still open raises NeedsHelp.       *)
(***************************************************************************)
LastEvent == IF tz_trace = <<>> THEN "" ELSE tz_trace[Len(tz_trace)]

\* the last thing open_file did was a poll of its closing loop
CloseLoopPolled ==
    /\ tz_prim = "open_file"
    /\ LastEvent = "o_wait_closed"
    /\ (tz_polls > 0 \/ tz_end.outcome # "")

CloseLoopTimedOut ==
    /\ tz_prim = "open_file"
    /\ Len(tz_trace) >= 2
    /\ LastEvent = "deadline"
    /\ tz_trace[Len(tz_trace) - 1] = "o_wait_closed"

C29_OpenFileClosePolls ==
    /\ (tz_prim = "open_file" /\ tz_end.outcome = "ok")
          => (CloseLoopPolled /\ tz_obs.hit /\ ~tz_obs.abort)
    /\ (CloseLoopPolled /\ tz_obs.abort)
          => tz_end = Result("needs_help",
                             Msg("Unexpected dialog while opening file"))
    /\ (CloseLoopPolled /\ ~tz_obs.abort /\ ~tz_obs.hit) => tz_end.outcome = ""
    /\ CloseLoopTimedOut
          => /\ tz_end.outcome = "needs_help"
             /\ tz_end.msg.text = "Open dialog did not close within 90 seconds"

\* a poll saw the dialog closed and an unexpected dialog at once
C29_Witness ==
    /\ CloseLoopPolled
    /\ tz_obs.hit
    /\ tz_obs.abort
    /\ tz_end.outcome = "needs_help"

(***************************************************************************)
(* C30: open_file sends the keyboard shortcut first, invokes the menu path *)
(* only after the wait for the dialog that follows the shortcut ran out,   *)
(* and raises the NeedsHelp "Open dialog not found", which carries the     *)
(* searched criteria and the visible window titles, only after the menu    *)
(* failed too (it could not be invoked, or the dialog did not follow it).  *)
(***************************************************************************)
At(k, ev) == k \in 1..Len(tz_trace) /\ tz_trace[k] = ev

DialogNotFound ==
    /\ tz_prim = "open_file"
    /\ tz_end.outcome = "needs_help"
    /\ tz_end.msg.text \in {"Open dialog not found",
                            "Open dialog not found and menu fallback failed"}

MenuFailed ==
    \/ LastEvent = "o_menu" /\ tz_end.outcome # ""
    \/ Len(tz_trace) >= 2 /\ LastEvent = "deadline"
          /\ tz_trace[Len(tz_trace) - 1] = "o_wait_slow"

C30_ShortcutThenMenuThenNeedsHelp ==
    /\ \A k \in 1..Len(tz_trace) :
          /\ At(k, "o_wait_fast") => At(k - 1, "o_shortcut")
          /\ At(k, "o_menu") =>
                /\ At(k - 1, "deadline")
                /\ At(k - 2, "o_wait_fast")
                /\ At(k - 3, "o_shortcut")
          /\ At(k, "o_wait_slow") => At(k - 1, "o_menu")
    /\ DialogNotFound =>
          /\ \E k \in 1..Len(tz_trace) : At(k, "o_menu")
          /\ MenuFailed
          /\ tz_end.msg.searched # ""
          /\ tz_end.msg.found_windows = tz_obs.titles
    /\ (tz_prim = "open_file" /\ MenuFailed) => DialogNotFound

\* shortcut and menu both tried, no dialog, windows on the desktop
C30_Witness ==
    /\ DialogNotFound
    /\ At(3, "o_wait_fast") /\ At(4, "deadline") /\ At(5, "o_menu")
    /\ At(6, "o_wait_slow") /\ At(7, "deadline")
    /\ tz_end.msg.found_windows = <<"Explorer", "TecZone Bend">>

(***************************************************************************)
(* process_job with the helpers it starts and stops around the session     *)
(* (SpecSession): the overlay process, the hotkey listener, the periodic   *)
(* screenshot thread. The overlay child may be unstartable and may go away *)
(* at any time; the hotkey is not pressed; pynput's listener.stop()        *)
(* returns.                                                                *)
(***************************************************************************)
\* the overlay child process exits (closed by the user, killed, crashed)
OverlayDies ==
    /\ overlay = "up"
    /\ overlay' = "down"
    /\ UNCHANGED <<procVars, loopVars, winVars, waitVars, sessionInputs, mergeVars,
                   stop_event, listener, timer>>

\* mutant: while True
TimerRuns_Always(stop) == TRUE

\* worker.py:325: while not stop_event.is_set()
TimerRuns(stop) == ~stop

\* worker.py:325: the periodic thread tests its loop condition; a cycle
\* begins when the test lets it into the body
TimerCheck ==
    /\ timer.at = "check"
    /\ timer' = [timer EXCEPT !.at = IF TimerRuns(stop_event) THEN "snap"
                                     ELSE "exited"]
    /\ UNCHANGED <<procVars, loopVars, winVars, waitVars, sessionInputs, mergeVars,
                   overlay, stop_event, listener>>

\* worker.py:326: screenshotter.snap("periodic")
TimerSnap ==
    /\ timer.at = "snap"
    /\ timer' = [at |-> "wait",
                 shots |-> IF timer.shots < MaxShots THEN timer.shots + 1
                           ELSE timer.shots]
    /\ UNCHANGED <<procVars, loopVars, winVars, waitVars, sessionInputs, mergeVars,
                   overlay, stop_event, listener>>

\* worker.py:327: stop_event.wait(periodic_seconds) returns, the interval
\* over or the event set
TimerWake ==
    /\ timer.at = "wait"
    /\ timer' = [timer EXCEPT !.at = "check"]
    /\ UNCHANGED <<procVars, loopVars, winVars, waitVars, sessionInputs, mergeVars,
                   overlay, stop_event, listener>>

\* mutant: writing to the pipe of a child that is gone raises out of set_text
SetTextRaises_BrokenPipe(ov) == ov = "down"

\* overlay.py:100-109: set_text returns at once when there is no live child,
\* and swallows every exception of the write; set_overlay (worker.py:380-394)
\* does nothing when overlay is None
SetTextRaises(ov) == FALSE

\* an exception leaving set_overlay: at connect and at the dry run it leaves
\* the outer try (worker.py:403-405, 437), inside an item it reaches the
\* generic handler (worker.py:562)
SetOverlayEscapes ==
    /\ IF pc \in {"connect", "connected"}
       THEN pc' = "outer_finally" /\ after' = "raise" /\ UNCHANGED exc
       ELSE pc' = "except_exception" /\ exc' = Msg("Exception")
            /\ UNCHANGED after
    /\ UNCHANGED <<jobInputs, xometry_map, overall_status, result, index,
                   part_result, step, opened_document, cleaned, pauseVars,
                   overlay_text, resultFile, latestFile, needsHelpFile, polls,
                   env, seen_items, calls, loopVars, extVars>>

\* a step of process_job that begins with set_overlay
WithOverlay(A) == IF SetTextRaises(overlay) THEN SetOverlayEscapes ELSE A

SessionConnect == pc = "connect" /\ WithOverlay(Connect)
SessionDryRun == pc = "connected" /\ dryRun /\ WithOverlay(DryRun)
SessionOpenFile == pc = "open_file" /\ Gate /\ WithOverlay(OpenFile)
SessionSetMaterial == pc = "set_material" /\ Gate /\ WithOverlay(SetMaterial)
SessionExportGeo == pc = "export_geo" /\ Gate /\ WithOverlay(ExportGeo)

\* the state at entry of process_job; what the job does not come to read of
\* the machine is left TRUE
InitSession ==
    /\ \E n \in 0..MaxSessionItems : \E ps \in Items(n) :
          inputFiles = [k \in 1..n |-> [partId |-> k, path |-> ps[k]]]
    /\ dryRun \in BOOLEAN
    /\ xometryJson \in {"none", "ok", "bad"}
    /\ catalog = IF xometryJson = "ok"
                 THEN [k \in 1..Len(inputFiles) |-> <<"I", "n", "o", "x">>]
                 ELSE <<>>
    /\ hotkey_enabled \in BOOLEAN
    /\ workflow = DEFAULT_WORKFLOW
    /\ exportNameTemplate = DefaultTemplate
    /\ no_overlay \in BOOLEAN
    /\ periodic_seconds \in {0, 1}
    /\ host \in [popen_ok : BOOLEAN, pynput_ok : BOOLEAN, hotkey_ok : BOOLEAN]
    /\ no_overlay => host.popen_ok
    /\ ~hotkey_enabled => host.pynput_ok
    /\ ~(hotkey_enabled /\ host.pynput_ok) => host.hotkey_ok
    /\ InitSessionVars
    /\ InitLocals
    /\ InitLoopIdle
    /\ InitWinIdle
    /\ InitWaitIdle
    /\ InitMergeIdle

NextSession ==
    \/ LoadCatalog
    \/ SessionConnect
    \/ ConnectNeedsHelp
    \/ SessionDryRun
    \/ StartLoop
    \/ EndLoop
    \/ BeginItem
    \/ WaitIfPaused
    \/ SessionOpenFile
    \/ SessionSetMaterial
    \/ SessionExportGeo
    \/ HandleNeedsHelp
    \/ HandleException
    \/ ItemFinally
    \/ AppendPart
    \/ Cleanup
    \/ Finish
    \/ OverlayDies
    \/ TimerCheck
    \/ TimerSnap
    \/ TimerWake

SpecSession == InitSession /\ [][NextSession]_vars

(***************************************************************************)
(* C22: a failure to start the overlay, or a failure while sending text to *)
(* it or stopping it, is never fatal: it changes neither the sequence of   *)
(* primitives process_job runs nor the Job Result, and the job continues   *)
(* headless.  Every step of the session that changes anything of the job   *)
(* (its position, its calls, its results, its files) is a step process_job *)
(* takes whatever the overlay does; the steps of the overlay child and of  *)
(* the periodic thread leave all of it alone.                              *)
(***************************************************************************)
JobStep == Next \/ WaitIfPaused \/ UNCHANGED procVars

SessionBegun == timer.at # "unset"

Exited == pc \in {"returned", "raised"}

CleanupRan ==
    /\ cleaned
    /\ stop_event
    /\ listener # "running"
    /\ overlay \notin {"up", "down"}

NoNewCycle == stop_event /\ timer'.at = "snap" => timer.at = "snap"

C23_CleanupOnEveryExit ==
    /\ []((Exited /\ SessionBegun) => CleanupRan)
    /\ [][NoNewCycle]_vars

\* an exception has escaped process_job after the session began; the
\* listener and the overlay were running and are stopped, and the periodic
\* thread, having taken a screenshot, has seen the signal and left its loop
C23_Witness ==
    /\ pc = "raised"
    /\ SessionBegun
    /\ stop_event
    /\ listener = "stopped"
    /\ overlay = "stopped"
    /\ timer = [at |-> "exited", shots |-> 1]

(***************************************************************************)
(* C31: close_active_file is attempted for a work item exactly when        *)
(* open_file succeeded for that item, after the item's other steps (also   *)
(* when one of them failed or raised NeedsHelp) and before the next item's *)
(* open_file; a failure of the close attempt is logged and changes neither *)
(* the item's Part Result nor the job status, and does not stop later      *)
(* items.                                                                  *)
(***************************************************************************)
CloseAt(k, i) == calls[k].prim = "CLOSE_FILE" /\ calls[k].item = i

CloseFailedAt(i) ==
    \E k \in 1..Len(calls) : CloseAt(k, i) /\ calls[k].outcome = "exception"

\* every close follows a successful open_file of its item and all the other
\* steps of the item, and is the only close of the item
ClosePlaced ==
    \A k \in 1..Len(calls) :
        calls[k].prim = "CLOSE_FILE" =>
            /\ Went(calls[k].item, "OPEN_FILE", TRUE)
            /\ \A j \in 1..Len(calls) :
                   calls[j].item = calls[k].item /\ j # k =>
                       j < k /\ calls[j].prim \in MajorSteps

\* an item whose open_file returned is closed before a later item is opened,
\* and at the latest when process_job ends
ClosedBeforeNext ==
    /\ \A k \in 1..Len(calls) : \A i \in 1..Len(inputFiles) :
           ( /\ calls[k].prim = "OPEN_FILE"
             /\ i < calls[k].item
             /\ Went(i, "OPEN_FILE", TRUE) )
           => \E j \in 1..(k - 1) : CloseAt(j, i)
    /\ Terminated =>
           \A i \in 1..Len(inputFiles) :
               Went(i, "OPEN_FILE", TRUE) <=> Went(i, "CLOSE_FILE", FALSE)

\* a failed close does not keep the loop from the items after it
LaterItemsRun ==
    pc = "returned" =>
        \A i \in 1..Len(inputFiles) :
            (CloseFailedAt(i) /\ ~NeedsHelpAt(i)) =>
                (i = Len(inputFiles) \/ index > i)

\* the step that attempts the close, however the attempt ends
CloseStepHarmless ==
    ( /\ Len(calls') = Len(calls) + 1
      /\ calls'[Len(calls')].prim = "CLOSE_FILE" )
    => /\ UNCHANGED <<part_result, result, overall_status, resultFile>>
       /\ after # "break" => pc' = "append"

C31_CloseIsBestEffort ==
    /\ [](ClosePlaced /\ ClosedBeforeNext /\ LaterItemsRun)
    /\ [][CloseStepHarmless]_vars

\* the close of the first item failed and the item is DONE all the same; the
\* second item was opened after it, and the job ended DONE
C31_Witness ==
    /\ pc = "returned"
    /\ CloseFailedAt(1)
    /\ Len(result.parts) = 2
    /\ result.parts[1].status = "DONE"
    /\ Went(2, "OPEN_FILE", TRUE)
    /\ resultFile.status = "DONE"

(***************************************************************************)
(* C32: the enter-editing-mode step of export_geo is best-effort: once the *)
(* hotkey is sent it always succeeds after a brief settle delay and never  *)
(* makes export_geo fail, whatever windows the target application shows;   *)
(* it sends the hotkey only when the workflow configuration enables it     *)
(* (useEnterBend).                                                         *)
(***************************************************************************)
\* the bend hotkey was sent and export_geo came to the loop that follows it
BendSent == \E k \in 1..Len(tz_trace) : At(k, "e_bend")

\* the step is over: export_geo went on, or ended there
BendOver == BendSent /\ tz_pc # "e_bend"

\* export_geo went on to the export menu, after the check or, with a
\* timeout of zero, without one
BendWentOn ==
    \E k \in 1..Len(tz_trace) :
        /\ At(k, "e_bend")
        /\ \/ At(k + 1, "e_menu")
           \/ At(k + 1, "deadline") /\ At(k + 2, "e_menu")

BendRaised ==
    /\ LastEvent = "e_bend"
    /\ tz_end = Result("needs_help",
                       Msg("Unexpected dialog while entering bend mode"))

\* C32 as stated
C32_BendNeverFails ==
    /\ BendSent => (tz_prim = "export_geo" /\ workflow.useEnterBend)
    /\ BendOver => BendWentOn

\* C32 as amended: once the hotkey is sent the step makes at most one check
\* for an unexpected dialog of the target process; when the check finds one,
\* export_geo raises NeedsHelpError; otherwise the step succeeds without
\* waiting for the mode; the hotkey is sent only when useEnterBend is set.
C32_BendFailsOnlyOnUnexpectedDialog ==
    /\ BendSent => (tz_prim = "export_geo" /\ workflow.useEnterBend)
    /\ tz_pc = "e_bend" => tz_polls = 0
    /\ BendOver => (BendWentOn \/ BendRaised)
    /\ BendRaised => tz_obs.abort
    /\ (BendWentOn /\ LastEvent = "e_menu" /\ tz_pc = "e_menu") => ~tz_obs.abort

\* the hotkey was sent, the check found an unexpected dialog, and export_geo
\* has raised NeedsHelpError
C32_Witness ==
    /\ tz_prim = "export_geo"
    /\ workflow.useEnterBend
    /\ BendRaised
    /\ tz_obs.abort
    /\ tz_pc = ""

(***************************************************************************)
(* C33: during one continuous pause process_job captures exactly one       *)
(* 'paused' screenshot, at the first poll that detects the pause, and none *)
(* at the later polls of that pause, however long the pause lasts.  A      *)
(* pause is the time between a press of the hotkey that sets the flag and  *)
(* the press that clears it; the pause a poll has found has exactly one    *)
(* screenshot, from its first such poll on.                                *)
(***************************************************************************)
PauseDetected == paused_shots.seen # 0

C33_OnePausedShotPerPause ==
    PauseDetected =>
        (paused_shots.pause = paused_shots.seen /\ paused_shots.n = 1)

(***************************************************************************)
(* The workflow configuration (SpecMerge): deep_merge and                  *)
(* TecZoneSession._load_workflow of teczone_actions.py, applied to a       *)
(* config file that is missing, unreadable, or holds any JSON value with   *)
(* maps nested up to MaxDepth.                                             *)
(***************************************************************************)
\* the keys a map of the file may have at each nesting level, and the
\* scalars it may hold
KeysAt(level) ==
    IF level = 1 THEN {"materialRequired", "timeouts"}
    ELSE {"saveAsSeconds", "extra"}

Scalars == {"True", "5"}

RECURSIVE Values(_)
Values(level) ==
    {Scalar(x) : x \in Scalars} \cup
    (IF level > MaxDepth THEN {}
     ELSE UNION { {Dict(f) : f \in [S -> Values(level + 1)]} :
                  S \in SUBSET KeysAt(level) })

\* teczone_actions.py:55-64; base is a map (DEFAULT_WORKFLOW, or a map in it)
RECURSIVE deep_merge(_, _)
deep_merge(base, override) ==
    IF ~override.dict THEN base
    ELSE Dict([k \in DOMAIN base.map \cup DOMAIN override.map |->
                  IF k \notin DOMAIN override.map THEN base.map[k]
                  ELSE IF /\ override.map[k].dict
                          /\ k \in DOMAIN base.map
                          /\ base.map[k].dict
                  THEN deep_merge(base.map[k], override.map[k])
                  ELSE override.map[k]])

\* mutant: out = base, the assignments to out are assignments to base
BaseAfterMerge_NoCopy(base, out) == out

\* teczone_actions.py:56: out = copy.deepcopy(base); base after the merge
BaseAfterMerge(base, out) == base

\* teczone_actions.py:95-109: the session's workflow, from the file
load_workflow(file, default) ==
    IF file.state = "ok" THEN deep_merge(default, file.data) ELSE default

\* teczone_actions.py:87: a session is constructed
LoadWorkflow ==
    /\ merged' = load_workflow(workflow_config, default_workflow)
    /\ default_workflow' =
          IF workflow_config.state = "ok"
          THEN BaseAfterMerge(default_workflow,
                              deep_merge(default_workflow, workflow_config.data))
          ELSE default_workflow
    /\ UNCHANGED <<procVars, loopVars, winVars, waitVars, sessionInputs,
                   sessionVars, workflow_config>>

InitMerge ==
    /\ InitJobIdle
    /\ InitLoopIdle
    /\ InitWinIdle
    /\ InitWaitIdle
    /\ InitSessionIdle
    /\ \/ workflow_config \in {NoConfig, [NoConfig EXCEPT !.state = "unreadable"]}
       \/ \E v \in Values(1) : workflow_config = [state |-> "ok", data |-> v]
    /\ default_workflow = DefaultWorkflowTree
    /\ merged = NotLoaded

NextMerge == LoadWorkflow

SpecMerge == InitMerge /\ [][NextMerge]_vars

(***************************************************************************)
(* C34: the workflow configuration of a session is the defaults overridden *)
(* by the external config: every key the external config sets (at any      *)
(* depth of nested maps) has the external value, every key it does not set *)
(* keeps its default, merging the same override twice gives the same       *)
(* result as merging it once, DEFAULT_WORKFLOW itself is never modified,   *)
(* and a missing or unreadable config yields exactly the defaults.         *)
(***************************************************************************)
Absent == Scalar("absent")

\* the value at a path of keys, Absent where the path does not lead
RECURSIVE Lookup(_, _)
Lookup(v, p) ==
    IF p = <<>> THEN v
    ELSE IF v.dict /\ Head(p) \in DOMAIN v.map
    THEN Lookup(v.map[Head(p)], Tail(p))
    ELSE Absent

\* the paths of keys to the scalars in a value
RECURSIVE LeafPaths(_)
LeafPaths(v) ==
    IF ~v.dict THEN {<<>>}
    ELSE UNION { {<<k>> \o p : p \in LeafPaths(v.map[k])} : k \in DOMAIN v.map }

Loaded == merged # NotLoaded

\* the override: what the file holds when it is read, else nothing
External == IF workflow_config.state = "ok" THEN workflow_config.data
            ELSE Dict(EmptyMap)

ExternalWins ==
    \A p \in LeafPaths(External) \ {<<>>} :
        Lookup(merged, p) = Lookup(External, p)

\* the external config puts a scalar where the path goes on
Replaced(p) ==
    \E n \in 1..(Len(p) - 1) :
        /\ Lookup(External, SubSeq(p, 1, n)) # Absent
        /\ ~Lookup(External, SubSeq(p, 1, n)).dict

DefaultsKept(strict) ==
    \A p \in LeafPaths(DefaultWorkflowTree) :
        (Lookup(External, p) = Absent /\ (strict \/ ~Replaced(p)))
        => Lookup(merged, p) = Lookup(DefaultWorkflowTree, p)

MergeTwiceIsMergeOnce ==
    deep_merge(deep_merge(DefaultWorkflowTree, External), External)
        = deep_merge(DefaultWorkflowTree, External)

MergeSound(strict) ==
    /\ default_workflow = DefaultWorkflowTree
    /\ Loaded =>
          /\ ExternalWins
          /\ DefaultsKept(strict)
          /\ MergeTwiceIsMergeOnce
          /\ workflow_config.state # "ok" => merged = DefaultWorkflowTree

\* C34 as stated
C34_MergeOverridesDefaults == MergeSound(TRUE)

\* C34 as amended: a key the external config does not set keeps its default
\* unless the external config puts a value that is not a map in the place of
\* a default map that contains the key
C34_MergeKeepsUnreplacedDefaults == MergeSound(FALSE)

\* the file overrides one nested timeout and adds a key: the merged workflow
\* has both, and the other timeout and the flag from the defaults
C34_Witness ==
    /\ Loaded
    /\ workflow_config.state = "ok"
    /\ Lookup(External, <<"timeouts", "saveAsSeconds">>) = Scalar("5")
    /\ Lookup(External, <<"timeouts", "extra">>) = Scalar("True")
    /\ Lookup(External, <<"materialRequired">>) = Absent
    /\ Lookup(merged, <<"timeouts", "saveAsSeconds">>) = Scalar("5")
    /\ Lookup(merged, <<"timeouts", "extra">>) = Scalar("True")
    /\ Lookup(merged, <<"timeouts", "exportMenuSeconds">>) = Scalar("10")
    /\ Lookup(merged, <<"materialRequired">>) = Scalar("False")

(***************************************************************************)
(* C35: at no time are two workers running process_job for the same job    *)
(* identifier: while one worker holds the .processing marker of a job,     *)
(* every other worker's claim_job for that identifier fails, under any     *)
(* interleaving of claim, process and release.                             *)
(***************************************************************************)
Running_process_job(w) == wpc[w] = "process"

NoTwoRunners ==
    \A w1, w2 \in Workers :
        (w1 # w2 /\ Running_process_job(w1) /\ Running_process_job(w2))
        => wjob[w1] # wjob[w2]

\* from its claim to its release a worker's marker is in place
HolderHasMarker ==
    \A w \in Workers : Holding(w) => Processing(wjob[w]) \in markers

\* a claim_job made for a job another worker holds
ClaimAgainstHolder ==
    \A w, v \in Workers :
        ( /\ v # w
          /\ Holding(w)
          /\ wjob[v] = wjob[w]
          /\ wpc[v] = "claim"
          /\ wpc'[v] # "claim" )
        => /\ ~wok'[v]
           /\ wpc'[v] = "next"
           /\ runs' = runs
           /\ Holding(w)'

C35_OneRunnerPerJob ==
    /\ [](NoTwoRunners /\ HolderHasMarker)
    /\ [][ClaimAgainstHolder]_vars

\* one worker is inside process_job for a job and another worker's claim for
\* it, made while the marker was in place and no call was racing, has failed
C35_Witness ==
    \E w1, w2 \in Workers :
        /\ w1 # w2
        /\ Running_process_job(w1)
        /\ Processing(wjob[w1]) \in markers
        /\ wjob[w2] = wjob[w1]
        /\ wpc[w2] = "next"
        /\ ~wok[w2]
        /\ ~wraced[w2]

(***************************************************************************)
(* C36: every job that run_loop claims is released exactly once, after     *)
(* process_job has ended and before run_loop claims another job: the       *)
(* marker is renamed to encode the status process_job returned, or FAILED  *)
(* when process_job raised an exception; run_loop never leaves a marker it *)
(* created in the .processing state when the rename succeeds.              *)
(***************************************************************************)
\* the marker suffix that encodes a status
Encodes ==
    {<<"DONE", "done">>, <<"PARTIAL", "partial">>,
     <<"NEEDS_HELP", "needs_help">>, <<"FAILED", "failed">>}

\* a worker that claimed a job goes into process_job, from there to
\* release_job, and only from there to the next descriptor
ClaimProcessRelease ==
    \A w \in Workers :
        /\ (wpc'[w] = "process" /\ wpc[w] # "process") =>
               (wpc[w] = "claim" /\ Processing(wjob[w]) \in markers')
        /\ (wpc[w] = "process" /\ wpc'[w] # "process") =>
               (wpc'[w] = "release" /\ markers' = markers)
        /\ (wpc'[w] = "release" /\ wpc[w] # "release") => wpc[w] = "process"
        /\ (wpc'[w] = "claim" /\ wpc[w] # "claim") => ~Holding(w)

\* release_job: the rename fails and changes nothing, or it takes the
\* .processing marker away and leaves the one that encodes the status
ReleaseRenames ==
    \A w \in Workers :
        (wpc[w] = "release" /\ wpc'[w] # "release") =>
            \/ markers' = markers
            \/ /\ Processing(wjob[w]) \notin markers'
               /\ \E e \in Encodes :
                     /\ e[1] = wstatus[w]
                     /\ markers' = (markers \ {Processing(wjob[w])})
                                      \cup {<<wjob[w], e[2]>>}

C36_ReleasedOnceWithStatus ==
    /\ [](HolderHasMarker)
    /\ [][ClaimProcessRelease /\ ReleaseRenames]_vars

\* a job was claimed and released twice: by one worker after process_job
\* returned NEEDS_HELP, by the other after it raised; no .processing marker
\* is left
C36_Witness ==
    /\ markers = {<<1, "needs_help">>, <<1, "failed">>}
    /\ runs[1] = 2
    /\ \A w \in Workers : ~Holding(w)

(***************************************************************************)
(* C37: in every persisted Job Result, a Part Result has a non-null        *)
(* geoPath if and only if its status is DONE: geoPath is set only after    *)
(* export_geo has returned successfully, and an item that failed or needed *)
(* help at any step keeps geoPath null.                                    *)
(***************************************************************************)
GeoPathIffDone(file) ==
    \A k \in 1..Len(file.parts) :
        file.parts[k].geoPath # NoGeoPath <=> file.parts[k].status = "DONE"

\* every Part Result in the list has its geoPath from an export_geo that
\* returned for its item
GeoPathOnlyAfterExport ==
    \A k \in 1..Len(result.parts) :
        result.parts[k].geoPath # NoGeoPath => Went(k, "EXPORT_GEO", TRUE)

FailedKeepsNull ==
    \A k \in 1..Len(result.parts) :
        (NeedsHelpAt(k) \/ ExceptionAt(k)) => result.parts[k].geoPath = NoGeoPath

C37_GeoPathIffDone ==
    /\ GeoPathIffDone(resultFile)
    /\ GeoPathIffDone(latestFile)
    /\ GeoPathOnlyAfterExport
    /\ FailedKeepsNull

\* a persisted Job Result with an exported item and one whose export_geo
\* needed help
C37_Witness ==
    /\ pc = "returned"
    /\ Len(resultFile.parts) = 2
    /\ resultFile.parts[1].status = "DONE"
    /\ resultFile.parts[1].geoPath # NoGeoPath
    /\ resultFile.parts[2].status = "NEEDS_HELP"
    /\ resultFile.parts[2].geoPath = NoGeoPath
    /\ Went(2, "EXPORT_GEO", FALSE)

\* ---------------------------------------------------------------------
\* C38: one NEEDS_HELP Part Result at most, and it closes the list
\* ---------------------------------------------------------------------

\* the positions of a parts list whose Part Result has status NEEDS_HELP
NeedsHelpParts(file) ==
    {k \in 1..Len(file.parts) : file.parts[k].status = "NEEDS_HELP"}

\* no NEEDS_HELP Part Result, or exactly one and it is the last element
NeedsHelpOnlyLast(file) ==
    NeedsHelpParts(file) \subseteq {Len(file.parts)}

\* C38: in every persisted Job Result (the job's result file and the
\* latest-result file) at most one Part Result has status NEEDS_HELP, and
\* if there is one it is the last element of the parts list; the list the
\* job is building has the same shape at every moment
C38_NeedsHelpPartIsLast ==
    /\ NeedsHelpOnlyLast(resultFile)
    /\ NeedsHelpOnlyLast(latestFile)
    /\ NeedsHelpOnlyLast(result)

\* a persisted Job Result of two parts whose second needed help after the
\* first had been appended
C38_Witness ==
    /\ pc = "returned"
    /\ Len(resultFile.parts) = 2
    /\ NeedsHelpParts(resultFile) = {2}
    /\ NeedsHelpAt(2)
    /\ resultFile.parts[1].status \in {"DONE", "FAILED"}

\* ---------------------------------------------------------------------
\* C39: the dry run
\* ---------------------------------------------------------------------

ItemPrimitives == {"OPEN_FILE", "SET_MATERIAL", "EXPORT_GEO", "CLOSE_FILE"}

\* dryRun is set and connect has returned
DryRunConnected == dryRun /\ ConnectReturned

\* no primitive of a work item has been started
NoItemPrimitive ==
    \A k \in 1..Len(calls) : calls[k].prim \notin ItemPrimitives

\* C39: when dryRun is set and connect succeeds, process_job starts no
\* open_file, set_material, export_geo or close_active_file, builds no Part
\* Result, and when it ends it has returned status DONE with the Job Result
\* [DONE, no parts] in both result files, however many work items the job
\* lists
C39_DryRunTouchesNoItem ==
    DryRunConnected =>
        /\ NoItemPrimitive
        /\ result.parts = <<>>
        /\ index = 0
        /\ Terminated =>
              /\ pc = "returned"
              /\ overall_status = "DONE"
              /\ resultFile = [status |-> "DONE", parts |-> <<>>]
              /\ latestFile = resultFile

\* a dry run of a job that lists work items has returned
C39_Witness ==
    /\ DryRunConnected
    /\ Len(inputFiles) >= 1
    /\ pc = "returned"
    /\ resultFile.status = "DONE"

(***************************************************************************)
(* process_job to its end: the job's thread keeps running, the hotkey is   *)
(* pressed or not                                                          *)
(***************************************************************************)
\* the state at entry of process_job, hotkeys enabled or disabled
InitPauseFair ==
    /\ \E n \in 0..MaxPauseItems :
          inputFiles = [k \in 1..n |-> [partId |-> k, path |-> "part.stp"]]
    /\ dryRun \in BOOLEAN
    /\ xometryJson = "ok"
    /\ catalog = [k \in 1..Len(inputFiles) |-> <<"I", "n", "o", "x">>]
    /\ hotkey_enabled \in BOOLEAN
    /\ workflow = DEFAULT_WORKFLOW
    /\ exportNameTemplate = DefaultTemplate
    /\ InitLocals
    /\ InitLoopIdle
    /\ InitExtIdle

\* a step of the thread that runs process_job: a statement of the job, or one
\* test of the while condition of wait_if_paused
JobThread == Next \/ WaitIfPaused

\* the thread of process_job is scheduled as long as it has a step to take:
\* every primitive returns or raises (its waits have deadlines), and the
\* sleep of wait_if_paused (worker.py:499) ends; no key press is ever due
SpecPauseFair == InitPauseFair /\ [][NextPause]_vars /\ WF_vars(JobThread)

\* ---------------------------------------------------------------------
\* C40: process_job terminates unless the pause flag stays true
\* ---------------------------------------------------------------------

\* the flag is true from some moment on
PausedForever == <>[]paused

\* worker.py:320-321: without hotkeys no listener is started, `_paused`
\* keeps its initial False and every wait_if_paused returns at once
NeverBlocksWithoutHotkeys == [](~hotkey_enabled => (~paused /\ Gate))

====
